---- MODULE Spec2Model ----
(***************************************************************************)
(* A model of the real-pulse-flow chat application: the relational schema  *)
(* and its row-level policies (supabase/migrations), and the Chat page     *)
(* that reads and writes rows through them.                                *)
(*                                                                         *)
(* The database side follows PostgreSQL's semantics for row-level          *)
(* security: permissive policies of one command are OR-ed, a table with    *)
(* row security and no policy for a command denies it, a comparison with   *)
(* NULL is never true, a sub-select inside a policy is itself subject to   *)
(* the caller's policies, a SECURITY DEFINER function is not, and an       *)
(* INSERT ... RETURNING also applies the SELECT policies to the new row.   *)
(***************************************************************************)
EXTENDS Bags, FiniteSets, Integers, Sequences, TLC

(***************************************************************************)
(* Bounds of the model.                                                    *)
(***************************************************************************)
MaxConvs == 2
MaxMsgs == 2         \* messages stored
MaxSends == 1       \* messages sent through the pages
MaxCreates == 1     \* createConversationWithUser calls
MaxFetches == 1     \* fetchMessages calls in flight per session
MaxRedeliver == 1   \* events the feed delivers again, per session
MaxFaults == 1      \* requests that fail in transit
MaxNow == 6         \* minutes the clock runs
MaxWidgets == 2     \* widgets a VideoCall component creates
MaxMounts == 2      \* times a session mounts the chat page
MaxCalls == 2       \* calls started per session

Null == "null"
Users == {"A", "B", "C"}
\* auth.uid() of a request: a user, or NULL for the anonymous role.
Callers == Users \cup {Null}
ConvIds == 1..MaxConvs
\* useState<string | null>(null): no conversation selected.
NoConversation == 0
\* The identities with the chat page open.
Sessions == {"A", "B"}
MsgIds == 1..MaxMsgs

VARIABLES
    auth_users,                 \* auth.users: the identifiers of the accounts
    profiles,                   \* public.profiles: set of rows
    conversations,              \* public.conversations: set of rows
    conversation_participants,  \* public.conversation_participants: bag of rows
    db_messages,                \* public.messages: set of rows
    now,                        \* the clock, in minutes
    \* The state of the Chat component, per session.
    mounted,                    \* the component is mounted
    convList,                   \* conversations: the identifiers loaded
    convParticipants,           \* conversations: the participants loaded with each
    selectedConversation,
    messages,                   \* the local message list
    newMessage,                 \* the composer's text
    isLoading,
    toasts,                     \* the titles of the notifications shown
    subscription,               \* the filter of the open message channel
    fetches,                    \* fetchMessages calls in flight
    inflight,                   \* insert events the feed has yet to deliver
    handlers,                   \* feed handlers awaiting the sender's profile
    received,                   \* the identifiers of the events delivered so far, in order of arrival (history)
    redelivered,                \* how many events the feed delivered again
    sendOp,                     \* the sendMessage call in progress
    createOp,                   \* the createConversationWithUser call in progress
    lastCreated,                \* the outcome of the latest createConversationWithUser (history)
    faults,                     \* how many requests failed in transit
    onlineUsers,                \* the user ids fetchOnlineUsers returned last
    uploadOp,                   \* the uploadImage call in progress
    objects,                    \* storage.objects: set of rows
    raw_user_meta_data,         \* auth.users.raw_user_meta_data, per account
    userProfile,                \* fetchUserProfile has set the session's own profile
    channels,                   \* the realtime channels 'presence' and 'calls-<id>' open, per session: bag
    showVideoCall,
    videoCallUrl,
    incomingCall,               \* the payload of the invitation shown
    callInbox,                  \* invitations broadcast and yet to be delivered
    callLog,                    \* history: the calls startVideoCall made and the sends of each, per session
    callOp,                     \* the startVideoCall call in progress
    \* The state of the VideoCall component, per session.
    api,                        \* the widget setApi stored, or none
    isJoined,
    cleanupApi,                 \* the api the cleanup of the current effect captured
    live,                       \* the widgets created and not disposed
    nextWidget,                 \* the next widget to be created
    scripts,                    \* the rooms whose external_api.js script is loading
    widgetRoom,                 \* options.roomName of each widget created, per session
    jitsiLoaded,                \* window.JitsiMeetExternalAPI is defined
    participants,               \* the participant list of the component
    isCameraOn,
    isMicOn,
    reported,                   \* history: what each widget has reported, per session
    feeds,                      \* the message channels open, per session: bag of filters
    presenceChanged             \* a call of fetchOnlineUsers is due, per session

dbVars == <<auth_users, profiles, conversations, conversation_participants, db_messages, now>>

storeVars == <<onlineUsers, uploadOp, objects>>

callVars == <<showVideoCall, videoCallUrl, incomingCall, callInbox, callOp, callLog>>

sessionVars == <<userProfile, channels, presenceChanged>>

widgetVars == <<api, isJoined, cleanupApi, live, nextWidget, scripts, jitsiLoaded, widgetRoom>>

callUiVars == <<participants, isCameraOn, isMicOn, reported>>

restVars == <<storeVars, raw_user_meta_data, callUiVars, sessionVars, callVars, widgetVars>>

otherVars == <<restVars, feeds>>

pageVars == <<mounted, convList, convParticipants, selectedConversation, messages, newMessage, isLoading, toasts,
              subscription, fetches, inflight, handlers, received, redelivered, sendOp,
              createOp, lastCreated, faults>>

chatVars == <<pageVars, otherVars>>

\* A nullable text column: NULL, or a value.
None == <<>>
Some(x) == <<x>>

\* SQL equality of two user references: unknown (not true) when either is
\* NULL.  Row identifiers are NOT NULL columns and compare as they are.
SqlEq(x, y) == x # Null /\ y # Null /\ x = y

(***************************************************************************)
(* Row-level policies, as the migrations create and drop them.             *)
(***************************************************************************)
Policy(name, tbl, cmd, roles, expr) ==
    [name |-> name, tbl |-> tbl, cmd |-> cmd, roles |-> roles, expr |-> expr]

CreatePolicies(P, new) == P \cup new

DropPolicy(P, name, tbl) == {p \in P : ~(p.name = name /\ p.tbl = tbl)}

\* 20250727014921: the initial schema.
InitialSchema(P) ==
    CreatePolicies(P, {
        Policy("Profiles are viewable by everyone", "profiles", "SELECT", "public", "true"),
        Policy("Users can update their own profile", "profiles", "UPDATE", "public", "own_profile"),
        Policy("Users can insert their own profile", "profiles", "INSERT", "public", "own_profile"),
        Policy("Avatar images are publicly accessible", "objects", "SELECT", "public", "bucket_avatars"),
        Policy("Users can upload their own avatar", "objects", "INSERT", "public", "avatars_own_folder"),
        Policy("Users can update their own avatar", "objects", "UPDATE", "public", "avatars_own_folder"),
        Policy("Users can delete their own avatar", "objects", "DELETE", "public", "avatars_own_folder"),
        Policy("Chat images are publicly accessible", "objects", "SELECT", "public", "bucket_chat_images"),
        Policy("Authenticated users can upload chat images", "objects", "INSERT", "public", "chat_images_own_folder"),
        Policy("Users can view conversations they participate in", "conversations", "SELECT", "public", "participant_subselect"),
        Policy("Users can create conversations", "conversations", "INSERT", "public", "uid_is_created_by"),
        Policy("Users can view participants of their conversations", "conversation_participants", "SELECT", "public", "participants_self_subselect"),
        Policy("Users can add participants to conversations they created", "conversation_participants", "INSERT", "public", "creator_subselect"),
        Policy("Users can view messages in their conversations", "messages", "SELECT", "public", "participant_subselect"),
        Policy("Users can send messages to their conversations", "messages", "INSERT", "public", "sender_and_participant")
    })

\* Mutant: the migration without "Users can add themselves as participants".
FixParticipantPolicies_NoSelfAdd(P) ==
    CreatePolicies(
        DropPolicy(DropPolicy(P,
            "Users can view participants of their conversations", "conversation_participants"),
            "Users can add participants to conversations they created", "conversation_participants"),
        {
        Policy("Users can view participants of conversations they participate in", "conversation_participants", "SELECT", "public", "is_conversation_participant"),
        Policy("Users can add participants to conversations they created", "conversation_participants", "INSERT", "public", "is_conversation_creator")
        })

\* 20250802115224: the participant policies without recursion.
FixParticipantPolicies(P) ==
    CreatePolicies(
        DropPolicy(DropPolicy(P,
            "Users can view participants of their conversations", "conversation_participants"),
            "Users can add participants to conversations they created", "conversation_participants"),
        {
        Policy("Users can view participants of conversations they participate in", "conversation_participants", "SELECT", "public", "is_conversation_participant"),
        Policy("Users can add participants to conversations they created", "conversation_participants", "INSERT", "public", "is_conversation_creator"),
        Policy("Users can add themselves as participants", "conversation_participants", "INSERT", "public", "uid_is_user_id")
        })

\* The chat-images / last_seen migration.
ChatImagesAndLastSeen(P) ==
    CreatePolicies(P, {
        Policy("Users can view chat images", "objects", "SELECT", "public", "bucket_chat_images"),
        Policy("Users can upload chat images", "objects", "INSERT", "public", "chat_images_own_folder"),
        Policy("Users can update their own chat images", "objects", "UPDATE", "public", "chat_images_own_folder"),
        Policy("Users can delete their own chat images", "objects", "DELETE", "public", "chat_images_own_folder")
    })

\* 20251205131608: the chat-images bucket made private.
PrivateChatImages(P) ==
    CreatePolicies(
        DropPolicy(DropPolicy(DropPolicy(DropPolicy(P,
            "Users can upload chat images", "objects"),
            "Users can view chat images", "objects"),
            "Authenticated users can upload chat images", "objects"),
            "Public chat images access", "objects"),
        {
        Policy("Users can upload chat images", "objects", "INSERT", "authenticated", "chat_images_any_uid"),
        Policy("Users can view chat images in their conversations", "objects", "SELECT", "authenticated", "chat_images_in_my_conversations")
        })

\* All migrations applied, in the order of their timestamps.
policies == PrivateChatImages(ChatImagesAndLastSeen(FixParticipantPolicies(InitialSchema({}))))

\* The policies that apply to a command on a table for a caller.
PoliciesFor(tbl, cmd, uid) ==
    {p \in policies : p.tbl = tbl /\ p.cmd = cmd
                      /\ (p.roles = "authenticated" => uid # Null)}

(***************************************************************************)
(* The two SECURITY DEFINER lookup functions: they read the tables         *)
(* directly, whatever the caller may see.                                  *)
(***************************************************************************)
\* Mutant: the user_id condition of the lookup forgotten.
is_conversation_participant_AnyUser(conversation_uuid, user_uuid) ==
    \E p \in BagToSet(conversation_participants) : p.conversation_id = conversation_uuid

is_conversation_participant(conversation_uuid, user_uuid) ==
    \E p \in BagToSet(conversation_participants) :
        p.conversation_id = conversation_uuid /\ SqlEq(p.user_id, user_uuid)

is_conversation_creator(conversation_uuid, user_uuid) ==
    \E c \in conversations :
        c.id = conversation_uuid /\ SqlEq(c.created_by, user_uuid)

(***************************************************************************)
(* conversation_participants: policy expressions and visible rows.         *)
(***************************************************************************)
ParticipantPolicyExpr(expr, uid, row) ==
    CASE expr = "is_conversation_participant" ->
            is_conversation_participant(row.conversation_id, uid)
      [] expr = "is_conversation_creator" ->
            is_conversation_creator(row.conversation_id, uid)
      [] expr = "uid_is_user_id" -> SqlEq(uid, row.user_id)
      \* The dropped policies of the initial schema: the SELECT policy reads
      \* its own table (PostgreSQL rejects it: infinite recursion), and the
      \* sub-select on conversations sees no row of a caller who is not yet
      \* a participant.
      [] expr = "participants_self_subselect" -> FALSE
      [] expr = "creator_subselect" -> FALSE
      [] OTHER -> FALSE

ParticipantPermitted(cmd, uid, row) ==
    \E p \in PoliciesFor("conversation_participants", cmd, uid) :
        ParticipantPolicyExpr(p.expr, uid, row)

\* SELECT ... FROM conversation_participants, as the caller.
SelectParticipants(uid) ==
    {p \in BagToSet(conversation_participants) : ParticipantPermitted("SELECT", uid, p)}

(***************************************************************************)
(* conversations and messages: policy expressions and visible rows.        *)
(***************************************************************************)
\* EXISTS (SELECT 1 FROM conversation_participants WHERE conversation_id = c
\*         AND user_id = auth.uid()), evaluated as the caller.
ParticipantSubselect(uid, conversation_id) ==
    \E p \in SelectParticipants(uid) :
        p.conversation_id = conversation_id /\ SqlEq(p.user_id, uid)

\* Mutant: WITH CHECK (auth.uid() IS NOT NULL) in place of auth.uid() = created_by.
ConversationPolicyExpr_AnyCreator(expr, uid, row) ==
    CASE expr = "participant_subselect" -> ParticipantSubselect(uid, row.id)
      [] expr = "uid_is_created_by" -> uid # Null
      [] OTHER -> FALSE

ConversationPolicyExpr(expr, uid, row) ==
    CASE expr = "participant_subselect" -> ParticipantSubselect(uid, row.id)
      [] expr = "uid_is_created_by" -> SqlEq(uid, row.created_by)
      [] OTHER -> FALSE

ConversationPermitted(cmd, uid, row) ==
    \E p \in PoliciesFor("conversations", cmd, uid) :
        ConversationPolicyExpr(p.expr, uid, row)

SelectConversations(uid) ==
    {c \in conversations : ConversationPermitted("SELECT", uid, c)}

\* Mutant: the INSERT policy without auth.uid() = sender_id.
MessagePolicyExpr_NoSenderCheck(expr, uid, row) ==
    CASE expr = "participant_subselect" -> ParticipantSubselect(uid, row.conversation_id)
      [] expr = "sender_and_participant" -> ParticipantSubselect(uid, row.conversation_id)
      [] OTHER -> FALSE

MessagePolicyExpr(expr, uid, row) ==
    CASE expr = "participant_subselect" -> ParticipantSubselect(uid, row.conversation_id)
      [] expr = "sender_and_participant" ->
            SqlEq(uid, row.sender_id) /\ ParticipantSubselect(uid, row.conversation_id)
      [] OTHER -> FALSE

MessagePermitted(cmd, uid, row) ==
    \E p \in PoliciesFor("messages", cmd, uid) : MessagePolicyExpr(p.expr, uid, row)

SelectMessages(uid) ==
    {m \in db_messages : MessagePermitted("SELECT", uid, m)}

(***************************************************************************)
(* Statements of the query/update API.  Each yields the error the client   *)
(* gets (Null: none); a failed statement changes nothing.  PostgreSQL      *)
(* evaluates, per row, the policies' WITH CHECK, then the CHECK            *)
(* constraints, then the unique indexes, and the foreign keys at the end   *)
(* of the statement.                                                       *)
(***************************************************************************)
MessageTypes == {"text", "image", "call_info"}

\* handle_new_user, fired by on_auth_user_created: the profile of a new
\* account (last_seen: the column's DEFAULT now()).
handle_new_user(new) ==
    [user_id |-> new.id,
     username |-> new.raw_user_meta_data.username,
     display_name |-> new.raw_user_meta_data.display_name,
     last_seen |-> now]

\* The signup metadata: each key is absent (->> gives NULL) or a text.
Usernames == {"ann", "bob"}
DisplayNames == {"Ann"}
Metadata == [username : Usernames \cup {Null}, display_name : DisplayNames \cup {Null}]
NoMetadata == [username |-> Null, display_name |-> Null]

\* Mutant: profiles.username without UNIQUE.
ProfileUniqueViolation_NoUsername(row) == \E p \in profiles : p.user_id = row.user_id

\* user_id UUID NOT NULL UNIQUE, username TEXT UNIQUE (NULLs never collide).
ProfileUniqueViolation(row) ==
    \E p \in profiles : p.user_id = row.user_id \/ SqlEq(p.username, row.username)

\* REFERENCES auth.users(id)
UserExists(id) == id \in auth_users

ConversationExists(id) == \E c \in conversations : c.id = id

NextConversationId == Cardinality(conversations) + 1

NextMessageId == Cardinality(db_messages) + 1

ConversationRow(id, created_by, uid) == [id |-> id, created_by |-> created_by, by |-> uid]

\* INSERT INTO conversations; returning: Prefer: return=representation (.select()).
ConversationInsertError(uid, row, returning) ==
    IF ~ConversationPermitted("INSERT", uid, row) THEN "rls"
    ELSE IF returning /\ ~ConversationPermitted("SELECT", uid, row) THEN "rls"
    ELSE Null

\* The statement's outcome: the error and the table after it.
ConversationsInsert(uid, row, returning) ==
    LET err == ConversationInsertError(uid, row, returning)
    IN  [error |-> err, tbl |-> IF err = Null THEN conversations \cup {row} ELSE conversations]

ParticipantRow(conversation_id, user_id) ==
    [conversation_id |-> conversation_id, user_id |-> user_id]

\* Mutant: the table without its UNIQUE constraint.
ParticipantUniqueViolation_Off(tbl, row) == FALSE

\* UNIQUE(conversation_id, user_id) against the rows of tbl.
ParticipantUniqueViolation(tbl, row) ==
    \E p \in BagToSet(tbl) :
        p.conversation_id = row.conversation_id /\ p.user_id = row.user_id

\* INSERT INTO conversation_participants VALUES rows[i], rows[i+1], ...:
\* the error and the table after the statement.
RECURSIVE ParticipantsInsert(_, _, _, _)
ParticipantsInsert(tbl, uid, rows, i) ==
    IF i > Len(rows)
    THEN IF \E j \in 1..Len(rows) : ~ConversationExists(rows[j].conversation_id)
                                      \/ ~UserExists(rows[j].user_id)
         THEN [error |-> "fk", tbl |-> conversation_participants]
         ELSE [error |-> Null, tbl |-> tbl]
    ELSE IF ~ParticipantPermitted("INSERT", uid, rows[i])
         THEN [error |-> "rls", tbl |-> conversation_participants]
         ELSE IF ParticipantUniqueViolation(tbl, rows[i])
              THEN [error |-> "unique", tbl |-> conversation_participants]
              ELSE ParticipantsInsert(tbl (+) SetToBag({rows[i]}), uid, rows, i + 1)

MessageRow(id, conversation_id, sender_id, content, image_url, message_type, created_at, uid) ==
    [id |-> id, conversation_id |-> conversation_id, sender_id |-> sender_id,
     content |-> content, image_url |-> image_url, message_type |-> message_type,
     created_at |-> created_at, by |-> uid]

\* message_type TEXT NOT NULL DEFAULT 'text' CHECK (message_type IN ('text', 'image'))
MessageTypeCheck(message_type) == message_type \in {"text", "image"}

\* INSERT INTO messages.
MessageInsertError(uid, row) ==
    IF ~MessagePermitted("INSERT", uid, row) THEN "rls"
    ELSE IF ~MessageTypeCheck(row.message_type) THEN "check"
    ELSE IF ~ConversationExists(row.conversation_id) \/ ~UserExists(row.sender_id) THEN "fk"
    ELSE Null

MessagesInsert(uid, row) ==
    LET err == MessageInsertError(uid, row)
    IN  [error |-> err, tbl |-> IF err = Null THEN db_messages \cup {row} ELSE db_messages]

(***************************************************************************)
(* The access-control layer on its own: any caller issues any insert.      *)
(***************************************************************************)
\* A new account: the row of auth.users and, by the trigger, its profile.
\* The trigger runs in the transaction of the insert into auth.users: when
\* its insert into profiles fails, the account is not created either.
SignUp(id, meta) ==
    LET new == [id |-> id, raw_user_meta_data |-> meta]
        row == handle_new_user(new)
    IN  /\ id \notin auth_users
        /\ IF ProfileUniqueViolation(row)
           THEN UNCHANGED <<auth_users, profiles, raw_user_meta_data>>
           ELSE /\ auth_users' = auth_users \cup {id}
                /\ raw_user_meta_data' = [u \in auth_users' |-> IF u = id THEN meta ELSE raw_user_meta_data[u]]
                /\ profiles' = profiles \cup {row}
        /\ UNCHANGED <<conversations, conversation_participants, db_messages, now>>
        /\ UNCHANGED <<pageVars, storeVars, callUiVars, sessionVars, callVars, widgetVars, feeds>>

ApiInsertConversation(uid, created_by, returning) ==
    LET row == ConversationRow(NextConversationId, created_by, uid)
        res == ConversationsInsert(uid, row, returning)
    IN  /\ res.error = Null => NextConversationId <= MaxConvs
        /\ conversations' = res.tbl
        /\ UNCHANGED <<auth_users, profiles, conversation_participants, db_messages, now>>
        /\ UNCHANGED chatVars

\* The statements tried: one row, or two rows as the chat page sends them.
ParticipantStatements(uid) ==
    {<<ParticipantRow(c, u)>> : c \in ConvIds, u \in Users}
    \cup {<<ParticipantRow(c, uid), ParticipantRow(c, v)>> : c \in ConvIds, v \in Users}

ApiInsertParticipants(uid, rows) ==
    LET res == ParticipantsInsert(conversation_participants, uid, rows, 1)
    IN  /\ conversation_participants' = res.tbl
        /\ UNCHANGED <<auth_users, profiles, conversations, db_messages, now>>
        /\ UNCHANGED chatVars

(***************************************************************************)
(* Storage: the buckets the migrations leave, the policies on              *)
(* storage.objects, and the two ways an object is fetched.                 *)
(***************************************************************************)
Bucket(id, public) == [id |-> id, public |-> public]

\* INSERT INTO storage.buckets of the initial schema.
InitialSchemaBuckets(B) == B \cup {Bucket("avatars", TRUE), Bucket("chat-images", TRUE)}

\* INSERT ... ON CONFLICT (id) DO NOTHING
ChatImagesBucket(B) ==
    IF \E b \in B : b.id = "chat-images" THEN B ELSE B \cup {Bucket("chat-images", TRUE)}

\* UPDATE storage.buckets SET public = false WHERE id = 'chat-images'
PrivateChatImagesBucket(B) ==
    {IF b.id = "chat-images" THEN [b EXCEPT !.public = FALSE] ELSE b : b \in B}

\* All migrations applied.
buckets == PrivateChatImagesBucket(ChatImagesBucket(InitialSchemaBuckets({})))

\* An object name `${user.id}/${Date.now()}.${fileExt}`: its folder and its
\* file, the extension left out.
ObjectName(folder, file) == [folder |-> folder, file |-> file]

ObjectRow(bucket_id, name, owner) == [bucket_id |-> bucket_id, name |-> name, owner |-> owner]

\* supabase.storage.from(bucket).getPublicUrl(name): the URL of the public
\* endpoint, built on the client without a request.
getPublicUrl(bucket_id, name) == [endpoint |-> "public", bucket_id |-> bucket_id, name |-> name]

\* m.image_url LIKE '%' || name || '%'
ImageUrlLike(image_url, name) == image_url # None /\ image_url[1].name = name

ObjectPolicyExpr(expr, uid, row) ==
    CASE expr = "bucket_avatars" -> row.bucket_id = "avatars"
      [] expr = "avatars_own_folder" ->
            row.bucket_id = "avatars" /\ SqlEq(uid, row.name.folder)
      [] expr = "bucket_chat_images" -> row.bucket_id = "chat-images"
      [] expr = "chat_images_own_folder" ->
            row.bucket_id = "chat-images" /\ SqlEq(uid, row.name.folder)
      [] expr = "chat_images_any_uid" -> row.bucket_id = "chat-images" /\ uid # Null
      [] expr = "chat_images_in_my_conversations" ->
            /\ row.bucket_id = "chat-images"
            /\ \E m \in SelectMessages(uid) : \E cp \in SelectParticipants(uid) :
                  /\ m.conversation_id = cp.conversation_id
                  /\ ImageUrlLike(m.image_url, row.name)
                  /\ SqlEq(cp.user_id, uid)
      [] OTHER -> FALSE

ObjectPermitted(cmd, uid, row) ==
    \E p \in PoliciesFor("objects", cmd, uid) : ObjectPolicyExpr(p.expr, uid, row)

\* The objects a download or a listing through the API shows the caller.
SelectObjects(uid) == {o \in objects : ObjectPermitted("SELECT", uid, o)}

\* storage upload without upsert: the bucket exists, the INSERT policies
\* accept the row, and the name is free in the bucket.
ObjectInsertError(uid, row) ==
    IF ~\E b \in buckets : b.id = row.bucket_id THEN "bucket"
    ELSE IF ~ObjectPermitted("INSERT", uid, row) THEN "rls"
    ELSE IF \E o \in objects : o.bucket_id = row.bucket_id /\ o.name = row.name THEN "duplicate"
    ELSE Null

ObjectsInsert(uid, row) ==
    LET err == ObjectInsertError(uid, row)
    IN  [error |-> err, tbl |-> IF err = Null THEN objects \cup {row} ELSE objects]

\* A GET of the URL by uid returns the object: the public endpoint serves the
\* objects of public buckets to anyone; the authenticated endpoint serves
\* the objects the SELECT policies show the caller.
Resolves(url, uid) ==
    \E o \in objects :
        /\ o.bucket_id = url.bucket_id /\ o.name = url.name
        /\ IF url.endpoint = "public"
           THEN \E b \in buckets : b.id = url.bucket_id /\ b.public
           ELSE ObjectPermitted("SELECT", uid, o)

Hi == <<"h", "i">>

ApiInsertMessage(uid, conversation_id, sender_id, message_type) ==
    LET row == MessageRow(NextMessageId, conversation_id, sender_id,
                          IF message_type = "image" THEN None ELSE Some(Hi),
                          IF message_type = "image"
                          THEN Some(getPublicUrl("chat-images", ObjectName(sender_id, now)))
                          ELSE None,
                          message_type, now, uid)
        res == MessagesInsert(uid, row)
    IN  /\ res.error = Null => NextMessageId <= MaxMsgs
        /\ db_messages' = res.tbl
        /\ UNCHANGED <<auth_users, profiles, conversations, conversation_participants, now>>
        /\ UNCHANGED chatVars

(***************************************************************************)
(* UPDATE and DELETE through the API.  A statement without a WHERE clause  *)
(* reaches every row its USING policies show the caller; the rows of a     *)
(* table with no policy for the command are silently left alone.           *)
(***************************************************************************)
\* UPDATE conversations SET created_by = auth.uid()
ConversationsUpdate(uid) ==
    {IF ConversationPermitted("UPDATE", uid, c) THEN [c EXCEPT !.created_by = uid] ELSE c :
        c \in conversations}

\* Mutant: a DELETE policy USING (true) on conversations.
ConversationsDelete_Unrestricted(uid) ==
    {}

\* DELETE FROM conversations: the rows that stay.
ConversationsDelete(uid) ==
    {c \in conversations : ~ConversationPermitted("DELETE", uid, c)}

\* UPDATE conversation_participants SET user_id = auth.uid(); the statement
\* fails as a whole when it would store a pair twice.
ParticipantsUpdate(uid) ==
    LET hit == {r \in BagToSet(conversation_participants) :
                   ParticipantPermitted("UPDATE", uid, r)}
        kept == [r \in BagToSet(conversation_participants) \ hit |->
                    conversation_participants[r]]
        new == kept (+) SetToBag({ParticipantRow(r.conversation_id, uid) : r \in hit})
    IN  IF hit = {} \/ uid = Null \/ \E r \in BagToSet(new) : new[r] > 1
        THEN conversation_participants
        ELSE new

\* DELETE FROM conversation_participants: the rows that stay.
ParticipantsDelete(uid) ==
    [r \in {x \in BagToSet(conversation_participants) : ~ParticipantPermitted("DELETE", uid, x)}
        |-> conversation_participants[r]]

\* UPDATE messages SET content = NULL
MessagesUpdate(uid) ==
    {IF MessagePermitted("UPDATE", uid, m) THEN [m EXCEPT !.content = None] ELSE m :
        m \in db_messages}

\* DELETE FROM messages: the rows that stay.
MessagesDelete(uid) ==
    {m \in db_messages : ~MessagePermitted("DELETE", uid, m)}

Tables == {"conversations", "conversation_participants", "messages"}

ApiUpdate(uid, tbl) ==
    /\ conversations' = IF tbl = "conversations" THEN ConversationsUpdate(uid) ELSE conversations
    /\ conversation_participants' =
          IF tbl = "conversation_participants" THEN ParticipantsUpdate(uid)
          ELSE conversation_participants
    /\ db_messages' = IF tbl = "messages" THEN MessagesUpdate(uid) ELSE db_messages
    /\ UNCHANGED <<auth_users, profiles, now>>
    /\ UNCHANGED chatVars

\* A deleted conversation takes its participants and messages with it
\* (ON DELETE CASCADE).
ApiDelete(uid, tbl) ==
    LET left == IF tbl = "conversations" THEN ConversationsDelete(uid) ELSE conversations
        ids == {c.id : c \in left}
        parts == IF tbl = "conversation_participants" THEN ParticipantsDelete(uid)
                 ELSE conversation_participants
        msgs == IF tbl = "messages" THEN MessagesDelete(uid) ELSE db_messages
    IN  /\ conversations' = left
        /\ conversation_participants' =
              [r \in {x \in BagToSet(parts) : x.conversation_id \in ids} |-> parts[r]]
        /\ db_messages' = {m \in msgs : m.conversation_id \in ids}
        /\ UNCHANGED <<auth_users, profiles, now>>
        /\ UNCHANGED chatVars

vars == <<dbVars, chatVars>>

Idle == [stage |-> "idle"]

\* `https://meet.jit.si/${roomName}`, as its parts between the slashes.
JitsiRoomUrl(roomName) == <<"https:", "", "meet.jit.si", roomName>>

\* A widget that has reported nothing: no remote participant, no conference
\* joined, no mute status.
NothingReported == [participants |-> {}, joined |-> FALSE, audioMuted |-> None, videoMuted |-> None]

\* useState<string>(''): no room URL.
EmptyUrl == <<>>

\* roomUrl.split('/'), last part.
RoomNameOf(roomUrl) == roomUrl[Len(roomUrl)]

\* The Chat component before it mounts.
InitChat ==
    /\ mounted = [s \in Sessions |-> FALSE]
    /\ convList = [s \in Sessions |-> {}]
    /\ convParticipants = [s \in Sessions |-> [c \in ConvIds |-> {}]]
    /\ selectedConversation = [s \in Sessions |-> NoConversation]
    /\ messages = [s \in Sessions |-> <<>>]
    /\ newMessage = [s \in Sessions |-> <<>>]
    /\ isLoading = [s \in Sessions |-> FALSE]
    /\ toasts = [s \in Sessions |-> Null]
    /\ subscription = [s \in Sessions |-> NoConversation]
    /\ fetches = [s \in Sessions |-> {}]
    /\ inflight = [s \in Sessions |-> {}]
    /\ handlers = [s \in Sessions |-> EmptyBag]
    /\ received = [s \in Sessions |-> <<>>]
    /\ redelivered = [s \in Sessions |-> 0]
    /\ sendOp = [s \in Sessions |-> Idle]
    /\ createOp = [s \in Sessions |-> Idle]
    /\ lastCreated = [s \in Sessions |-> Idle]
    /\ onlineUsers = [s \in Sessions |-> {}]
    /\ uploadOp = [s \in Sessions |-> Idle]
    /\ objects = {}
    /\ userProfile = [s \in Sessions |-> FALSE]
    /\ channels = [s \in Sessions |-> EmptyBag]
    /\ showVideoCall = [s \in Sessions |-> FALSE]
    /\ videoCallUrl = [s \in Sessions |-> EmptyUrl]
    /\ incomingCall = [s \in Sessions |-> None]
    /\ callInbox = [s \in Sessions |-> {}]
    /\ callLog = [s \in Sessions |-> <<>>]
    /\ callOp = [s \in Sessions |-> Idle]
    /\ api = [s \in Sessions |-> None]
    /\ isJoined = [s \in Sessions |-> FALSE]
    /\ cleanupApi = [s \in Sessions |-> None]
    /\ live = [s \in Sessions |-> {}]
    /\ nextWidget = [s \in Sessions |-> 1]
    /\ scripts = [s \in Sessions |-> {}]
    /\ widgetRoom = [s \in Sessions |-> <<>>]
    /\ jitsiLoaded = [s \in Sessions |-> FALSE]
    /\ feeds = [s \in Sessions |-> EmptyBag]
    /\ presenceChanged = [s \in Sessions |-> FALSE]
    /\ participants = [s \in Sessions |-> <<>>]
    /\ isCameraOn = [s \in Sessions |-> TRUE]
    /\ isMicOn = [s \in Sessions |-> TRUE]
    /\ reported = [s \in Sessions |-> [w \in 1..MaxWidgets |-> NothingReported]]

InitDB ==
    /\ auth_users = {}
    /\ raw_user_meta_data = <<>>
    /\ profiles = {}
    /\ conversations = {}
    /\ conversation_participants = EmptyBag
    /\ db_messages = {}
    /\ now = 0
    /\ InitChat
    /\ faults = 0

NextDB ==
    \/ \E id \in Users : SignUp(id, NoMetadata)
    \/ \E uid \in auth_users \cup {Null}, created_by \in Callers, returning \in BOOLEAN :
          ApiInsertConversation(uid, created_by, returning)
    \/ \E uid \in auth_users \cup {Null} : \E rows \in ParticipantStatements(uid) :
          ApiInsertParticipants(uid, rows)
    \/ \E uid \in auth_users \cup {Null}, c \in ConvIds, s \in Users,
          t \in {"text", "call_info"} :
          ApiInsertMessage(uid, c, s, t)
    \/ \E uid \in auth_users \cup {Null}, tbl \in Tables : ApiUpdate(uid, tbl)
    \/ \E uid \in auth_users \cup {Null}, tbl \in Tables : ApiDelete(uid, tbl)

SpecDB == InitDB /\ [][NextDB]_vars

\* Account creation on its own: any signup metadata.
NextSignup == \E id \in Users, meta \in Metadata : SignUp(id, meta)

SpecSignup == InitDB /\ [][NextSignup]_vars

(***************************************************************************)
(* Properties of the access-control layer.                                 *)
(***************************************************************************)
\* The caller has a row in conversation_participants for the conversation.
HasParticipantRow(u, c) == BagIn(ParticipantRow(c, u), conversation_participants)

CreatedBy(u, c) == \E conv \in conversations : conv.id = c /\ conv.created_by = u

\* C1: whoever has no participant row in a conversation reads none of its
\* messages and none of its participant rows.
C1_ReadIsolation ==
    \A uid \in Callers, c \in ConvIds :
        ~HasParticipantRow(uid, c) =>
            /\ \A m \in SelectMessages(uid) : m.conversation_id # c
            /\ \A p \in SelectParticipants(uid) : p.conversation_id # c

\* Some account is outside a conversation that has a message and whose
\* participant reads both the message and the participant rows.
C1_Witness ==
    \E a \in auth_users, b \in auth_users, c \in ConvIds :
        /\ ~HasParticipantRow(a, c)
        /\ HasParticipantRow(b, c)
        /\ \E m \in SelectMessages(b) : m.conversation_id = c
        /\ \E p \in SelectParticipants(b) : p.conversation_id = c
        /\ \A m \in SelectMessages(a) : m.conversation_id # c

\* The row an insert into messages would add now.
MessageRequest(uid, c, s, t) == MessageRow(NextMessageId, c, s, Some(Hi), None, t, now, uid)

\* C2: an insert into messages is accepted only for sender = caller and a
\* caller who has a participant row in the conversation; any other insert is
\* rejected and leaves the table as it was.
C2_MessageInsertPolicy ==
    /\ \A uid \in Callers, c \in ConvIds, s \in Users, t \in MessageTypes :
          ~(s = uid /\ HasParticipantRow(uid, c)) =>
              LET res == MessagesInsert(uid, MessageRequest(uid, c, s, t))
              IN  res.error # Null /\ res.tbl = db_messages
    /\ \A m \in db_messages : m.sender_id = m.by /\ HasParticipantRow(m.by, m.conversation_id)

\* A message is stored, and an account outside its conversation exists.
C2_Witness ==
    \E m \in db_messages : \E a \in auth_users :
        /\ ~HasParticipantRow(a, m.conversation_id)
        /\ MessageInsertError(a, MessageRequest(a, m.conversation_id, a, "text")) = "rls"
        /\ MessageInsertError(m.by, MessageRequest(m.by, m.conversation_id, a, "text")) = "rls"

\* C3: no two rows of conversation_participants share (conversation, user),
\* and a statement that would add a second one fails and changes nothing.
C3_ParticipantUniqueness ==
    /\ \A c \in ConvIds, u \in Users :
          CopiesIn(ParticipantRow(c, u), conversation_participants) <= 1
    /\ \A uid \in Callers : \A rows \in ParticipantStatements(uid) :
          (\/ \E i \in 1..Len(rows) : BagIn(rows[i], conversation_participants)
           \/ \E i, j \in 1..Len(rows) : i # j /\ rows[i] = rows[j])
              => LET res == ParticipantsInsert(conversation_participants, uid, rows, 1)
                 IN  res.error # Null /\ res.tbl = conversation_participants

\* A conversation has two participants, so that a duplicate can be tried.
C3_Witness ==
    \E c \in ConvIds, u, v \in Users :
        u # v /\ HasParticipantRow(u, c) /\ HasParticipantRow(v, c)

\* C9: an insert of (c, u) into conversation_participants passes the policies
\* exactly when the caller created c or u is the caller.
C9_ParticipantInsertPolicy ==
    \A uid \in Callers, c \in ConvIds, u \in Users :
        /\ ParticipantPermitted("INSERT", uid, ParticipantRow(c, u))
              <=> (CreatedBy(uid, c) \/ u = uid)
        /\ ParticipantsInsert(conversation_participants, uid, <<ParticipantRow(c, u)>>, 1).error = "rls"
              <=> ~(CreatedBy(uid, c) \/ u = uid)

\* A creator has added another account, and an account that is neither the
\* creator nor a participant may add itself but no one else.
C9_Witness ==
    \E a, b, o \in auth_users, c \in ConvIds :
        /\ CreatedBy(a, c) /\ b # a /\ HasParticipantRow(b, c)
        /\ o # a /\ ~HasParticipantRow(o, c)
        /\ ParticipantPermitted("INSERT", o, ParticipantRow(c, o))
        /\ ~ParticipantPermitted("INSERT", o, ParticipantRow(c, a))

\* C10: an insert into conversations with created_by other than the caller
\* is rejected, and every stored conversation was inserted by its creator.
C10_ConversationInsertPolicy ==
    /\ \A conv \in conversations : conv.created_by = conv.by
    /\ \A uid \in Callers, created_by \in Callers, returning \in BOOLEAN :
          created_by # uid =>
              ConversationInsertError(uid, ConversationRow(NextConversationId, created_by, uid),
                                      returning) # Null

\* A conversation is stored.
C10_Witness == \E conv \in conversations : conv.created_by \in auth_users

\* C11 (append-only rows): no policy grants UPDATE or DELETE on messages,
\* conversations or conversation_participants; an update or a delete by any
\* caller leaves the three tables as they are; and no step of the API
\* removes or changes a stored row of them.
C11_AppendOnly ==
    /\ [](/\ \A p \in policies : p.tbl \in Tables => p.cmd \in {"SELECT", "INSERT"}
          /\ \A uid \in Callers :
                /\ ConversationsUpdate(uid) = conversations
                /\ ConversationsDelete(uid) = conversations
                /\ ParticipantsUpdate(uid) = conversation_participants
                /\ ParticipantsDelete(uid) = conversation_participants
                /\ MessagesUpdate(uid) = db_messages
                /\ MessagesDelete(uid) = db_messages)
    /\ [][/\ conversations \subseteq conversations'
          /\ conversation_participants \sqsubseteq conversation_participants'
          /\ db_messages \subseteq db_messages']_vars

\* All three tables hold a row, and a participant is the caller.
C11_Witness ==
    /\ conversations # {} /\ db_messages # {}
    /\ \E u \in auth_users, c \in ConvIds : HasParticipantRow(u, c)

(***************************************************************************)
(* The Chat page (one component per session), handler by handler.  Every   *)
(* await is a point where other events interleave; a statement runs on the *)
(* server and its response is handled in one step, except fetchMessages,   *)
(* whose rows are read at its first await and applied after its second.    *)
(***************************************************************************)
Texts == {<<>>, <<" ">>, Hi}

IsSpace(ch) == ch = " "

RECURSIVE TrimStart(_)
TrimStart(t) == IF t # <<>> /\ IsSpace(Head(t)) THEN TrimStart(Tail(t)) ELSE t

RECURSIVE TrimEnd(_)
TrimEnd(t) == IF t # <<>> /\ IsSpace(t[Len(t)]) THEN TrimEnd(SubSeq(t, 1, Len(t) - 1)) ELSE t

\* String.prototype.trim
Trim(t) == TrimEnd(TrimStart(t))

\* toast({title}): the toast shown is the latest one.
Toast(s, title) == [toasts EXCEPT ![s] = title]

\* A request reaches the backend and is answered (TRUE), or fails in transit.
Responses == IF faults < MaxFaults THEN BOOLEAN ELSE {TRUE}

ProfilePolicyExpr(expr, uid, row) ==
    CASE expr = "true" -> TRUE
      [] expr = "own_profile" -> SqlEq(uid, row.user_id)
      [] OTHER -> FALSE

ProfilePermitted(cmd, uid, row) ==
    \E p \in PoliciesFor("profiles", cmd, uid) : ProfilePolicyExpr(p.expr, uid, row)

SelectProfiles(uid) == {p \in profiles : ProfilePermitted("SELECT", uid, p)}

\* updateUserPresence: UPDATE profiles SET last_seen = <now> WHERE user_id = uid,
\* under "Users can update their own profile".
updateUserPresence(uid) ==
    {IF ProfilePermitted("UPDATE", uid, p) /\ SqlEq(p.user_id, uid)
     THEN [p EXCEPT !.last_seen = now]
     ELSE p : p \in profiles}

\* fetchConversations, per conversation: the participant rows the caller
\* sees and the profiles of their users; when the query is not answered,
\* participantData is null and the list is empty.
fetchParticipants(uid, answered) ==
    [c \in ConvIds |->
        IF answered /\ c \in {p.conversation_id : p \in {q \in SelectParticipants(uid) : SqlEq(q.user_id, uid)}}
        THEN {p.user_id : p \in {q \in SelectParticipants(uid) : q.conversation_id = c}}
             \cap {p.user_id : p \in SelectProfiles(uid)}
        ELSE {}]

\* fetchConversations: the conversations of the caller's participant rows.
fetchConversations(uid) ==
    {p.conversation_id : p \in {q \in SelectParticipants(uid) : SqlEq(q.user_id, uid)}}
    \cap {c.id : c \in SelectConversations(uid)}

\* The sequences that hold the rows of S ordered by created_at ascending.
RECURSIVE SortedSeqs(_)
SortedSeqs(S) ==
    IF S = {} THEN {<<>>}
    ELSE UNION {{<<m>> \o rest : rest \in SortedSeqs(S \ {m})} :
                m \in {x \in S : \A y \in S : x.created_at <= y.created_at}}

\* The channel subscribeToMessages opens for a selection, if any.
Opened(c) == IF c = NoConversation THEN EmptyBag ELSE SetToBag({c})

\* Mutant: the effect returns no cleanup, and the channel of the previous
\* selection stays open.
SelectionEffect_NoCleanup(s, c) ==
    /\ c # NoConversation => Cardinality(fetches[s]) < MaxFetches
    /\ selectedConversation' = [selectedConversation EXCEPT ![s] = c]
    /\ subscription' = [subscription EXCEPT ![s] = c]
    /\ feeds' = [feeds EXCEPT ![s] = @ (+) Opened(c)]
    /\ inflight' = [inflight EXCEPT ![s] = {}]
    /\ fetches' = [fetches EXCEPT ![s] =
                      IF c = NoConversation THEN @
                      ELSE @ \cup {[conv |-> c, stage |-> "query", data |-> <<>>]}]

\* useEffect([selectedConversation]): the cleanup of the previous run
\* unsubscribes; with a conversation selected, fetchMessages is called and
\* subscribeToMessages opens the channel filtered on it.
SelectionEffect(s, c) ==
    /\ c # NoConversation => Cardinality(fetches[s]) < MaxFetches
    /\ selectedConversation' = [selectedConversation EXCEPT ![s] = c]
    /\ subscription' = [subscription EXCEPT ![s] = c]
    /\ feeds' = [feeds EXCEPT ![s] = (@ (-) Opened(subscription[s])) (+) Opened(c)]
    /\ inflight' = [inflight EXCEPT ![s] = {}]
    /\ fetches' = [fetches EXCEPT ![s] =
                      IF c = NoConversation THEN @
                      ELSE @ \cup {[conv |-> c, stage |-> "query", data |-> <<>>]}]

\* The presence channel's callback, on any change of profiles: every mounted
\* page is due a call of fetchOnlineUsers.
ProfilesChanged == [t \in Sessions |-> presenceChanged[t] \/ mounted[t]]

\* useEffect([user]): fetchUserProfile, fetchConversations (which selects the
\* first conversation when none is selected), updateUserPresence,
\* subscribeToPresence and subscribeToCalls, each of which opens a channel.
Mount(s) ==
    /\ s \in auth_users /\ ~mounted[s]
    /\ BagCardinality(channels[s]) < 2 * MaxMounts
    /\ mounted' = [mounted EXCEPT ![s] = TRUE]
    /\ profiles' = updateUserPresence(s)
    /\ channels' = [channels EXCEPT ![s] = @ (+) SetToBag({"presence", "calls"})]
    /\ presenceChanged' = [ProfilesChanged EXCEPT ![s] = TRUE]
    /\ \E ok \in Responses : \E okProfile \in (IF ok THEN Responses ELSE {TRUE}) :
       \E okParticipants \in (IF ok /\ okProfile THEN Responses ELSE {TRUE}) :
          LET list == IF ok THEN fetchConversations(s) ELSE convList[s]
          IN  /\ convList' = [convList EXCEPT ![s] = list]
              /\ convParticipants' = IF ok
                                     THEN [convParticipants EXCEPT ![s] =
                                             fetchParticipants(s, okParticipants)]
                                     ELSE convParticipants
              /\ userProfile' = [userProfile EXCEPT ![s] = okProfile /\ SelectProfiles(s) # {}]
              /\ toasts' = IF ok THEN toasts ELSE Toast(s, "Error loading conversations")
              /\ faults' = IF ok /\ okProfile /\ okParticipants THEN faults ELSE faults + 1
              /\ IF ok /\ list # {} /\ selectedConversation[s] = NoConversation
                 THEN \E c \in list : SelectionEffect(s, c)
                 ELSE UNCHANGED <<selectedConversation, subscription, inflight, fetches, feeds>>
    /\ UNCHANGED <<auth_users, conversations, conversation_participants, db_messages, now>>
    /\ UNCHANGED <<messages, newMessage, isLoading, handlers, received, redelivered,
                   sendOp, createOp, lastCreated>>
    /\ UNCHANGED <<storeVars, raw_user_meta_data, callUiVars, callVars, widgetVars>>

\* onClick of a conversation of the list, or of the back arrow (NoConversation).
SelectConversation(s, c) ==
    /\ mounted[s]
    /\ c \in convList[s] \cup {NoConversation}
    /\ c # selectedConversation[s]
    /\ SelectionEffect(s, c)
    /\ UNCHANGED dbVars
    /\ UNCHANGED <<mounted, convList, convParticipants, messages, newMessage, isLoading, toasts, handlers,
                   received, redelivered, sendOp, createOp, lastCreated>>
    /\ UNCHANGED <<faults, restVars>>

\* fetchMessages, first await: the server reads the caller's visible messages
\* of the conversation, ordered by created_at; or the request fails.
FetchMessagesQuery(s, f) ==
    /\ f \in fetches[s] /\ f.stage = "query"
    /\ \E ok \in Responses :
          IF ok
          THEN /\ \E data \in SortedSeqs({m \in SelectMessages(s) : m.conversation_id = f.conv}) :
                     fetches' = [fetches EXCEPT ![s] =
                                   (@ \ {f}) \cup {[conv |-> f.conv, stage |-> "profiles", data |-> data]}]
               /\ UNCHANGED <<toasts, faults>>
          ELSE /\ fetches' = [fetches EXCEPT ![s] = @ \ {f}]
               /\ toasts' = Toast(s, "Error loading messages")
               /\ faults' = faults + 1
    /\ UNCHANGED dbVars
    /\ UNCHANGED <<mounted, convList, convParticipants, selectedConversation, messages, newMessage, isLoading,
                   subscription, inflight, handlers, received, redelivered, sendOp, createOp,
                   lastCreated>>
    /\ UNCHANGED otherVars

\* fetchMessages, after the profiles query: setMessages(messagesWithProfiles).
FetchMessagesApply(s, f) ==
    /\ f \in fetches[s] /\ f.stage = "profiles"
    /\ messages' = [messages EXCEPT ![s] = f.data]
    /\ fetches' = [fetches EXCEPT ![s] = @ \ {f}]
    /\ UNCHANGED dbVars
    /\ UNCHANGED <<mounted, convList, convParticipants, selectedConversation, newMessage, isLoading, toasts,
                   subscription, inflight, handlers, received, redelivered, sendOp, createOp,
                   lastCreated>>
    /\ UNCHANGED <<faults, otherVars>>

\* The composer is rendered with a conversation selected that is in the list.
ComposerShown(s) ==
    /\ mounted[s]
    /\ selectedConversation[s] # NoConversation
    /\ selectedConversation[s] \in convList[s]

\* onChange of the composer (disabled while isLoading).
TypeMessage(s, text) ==
    /\ ComposerShown(s) /\ ~isLoading[s]
    /\ text # newMessage[s]
    /\ newMessage' = [newMessage EXCEPT ![s] = text]
    /\ UNCHANGED dbVars
    /\ UNCHANGED <<mounted, convList, convParticipants, selectedConversation, messages, isLoading, toasts,
                   subscription, fetches, inflight, handlers, received, redelivered, sendOp,
                   createOp, lastCreated>>
    /\ UNCHANGED <<faults, otherVars>>

\* The feed publishes an insert to the sessions whose open channel filters on
\* the row's conversation and who may read the row.
Publish(row) ==
    [t \in Sessions |->
        IF mounted[t] /\ subscription[t] = row.conversation_id /\ MessagePermitted("SELECT", t, row)
        THEN inflight[t] \cup {row}
        ELSE inflight[t]]

\* The statements of the page still to be answered that will add a message.
PendingSends == Cardinality({t \in Sessions : sendOp[t] # Idle})

\* sendMessage, up to its first await.
SendMessage(s) ==
    /\ ComposerShown(s) /\ ~isLoading[s] /\ sendOp[s] = Idle
    /\ Trim(newMessage[s]) # <<>>
    /\ Cardinality(db_messages) + PendingSends < MaxSends
    /\ isLoading' = [isLoading EXCEPT ![s] = TRUE]
    /\ sendOp' = [sendOp EXCEPT ![s] = [stage |-> "presence",
                                         conv |-> selectedConversation[s],
                                         content |-> newMessage[s]]]
    /\ UNCHANGED dbVars
    /\ UNCHANGED <<mounted, convList, convParticipants, selectedConversation, messages, newMessage, toasts,
                   subscription, fetches, inflight, handlers, received, redelivered, createOp,
                   lastCreated>>
    /\ UNCHANGED <<faults, otherVars>>

\* sendMessage after an await: after updateUserPresence the insert is sent;
\* after the insert, the composer is cleared or the error is shown, and
\* isLoading is reset.
SendMessageResume(s) ==
    /\ sendOp[s] # Idle
    /\ IF sendOp[s].stage = "presence"
       THEN \E ok \in Responses :
            /\ profiles' = IF ok THEN updateUserPresence(s) ELSE profiles
            /\ presenceChanged' = IF ok THEN ProfilesChanged ELSE presenceChanged
            /\ faults' = IF ok THEN faults ELSE faults + 1
            /\ sendOp' = [sendOp EXCEPT ![s].stage = "insert"]
            /\ UNCHANGED <<db_messages, now, inflight, newMessage, toasts, isLoading>>
       ELSE \E ok \in Responses :
            LET row == MessageRow(NextMessageId, sendOp[s].conv, s, Some(sendOp[s].content),
                                  None, "text", now, s)
                res == MessagesInsert(s, row)
                sent == ok /\ res.error = Null
            IN  /\ db_messages' = IF sent THEN res.tbl ELSE db_messages
                /\ now' = IF sent THEN now + 1 ELSE now
                /\ inflight' = IF sent THEN Publish(row) ELSE inflight
                /\ newMessage' = IF sent THEN [newMessage EXCEPT ![s] = <<>>] ELSE newMessage
                /\ toasts' = IF sent THEN toasts ELSE Toast(s, "Failed to send message")
                /\ isLoading' = [isLoading EXCEPT ![s] = FALSE]
                /\ sendOp' = [sendOp EXCEPT ![s] = Idle]
                /\ faults' = IF ok THEN faults ELSE faults + 1
                /\ UNCHANGED <<profiles, presenceChanged>>
    /\ UNCHANGED <<auth_users, conversations, conversation_participants>>
    /\ UNCHANGED <<mounted, convList, convParticipants, selectedConversation, messages, subscription, fetches,
                   handlers, received, redelivered, createOp, lastCreated>>
    /\ UNCHANGED <<storeVars, raw_user_meta_data, callUiVars, userProfile, channels, callVars, widgetVars,
                   feeds>>

\* How often the event of a message was delivered to the session.
TimesReceived(s, id) == Cardinality({i \in 1..Len(received[s]) : received[s][i] = id})

\* The feed delivers an insert event: the handler starts and awaits the
\* sender's profile.
FeedDeliver(s, m) ==
    /\ m \in inflight[s]
    /\ inflight' = [inflight EXCEPT ![s] = @ \ {m}]
    /\ handlers' = [handlers EXCEPT ![s] = @ (+) SetToBag({m})]
    /\ received' = [received EXCEPT ![s] = Append(@, m.id)]
    /\ UNCHANGED dbVars
    /\ UNCHANGED <<mounted, convList, convParticipants, selectedConversation, messages, newMessage, isLoading,
                   toasts, subscription, fetches, redelivered, sendOp, createOp, lastCreated>>
    /\ UNCHANGED <<faults, otherVars>>

\* The feed delivers again an event the session has received: at-least-once
\* delivery, or a second channel on the topic, as an effect that does not
\* unsubscribe leaves behind.
FeedRedeliver(s, m) ==
    /\ m \in db_messages /\ TimesReceived(s, m.id) >= 1
    /\ subscription[s] = m.conversation_id
    /\ m \notin inflight[s]
    /\ redelivered[s] < MaxRedeliver
    /\ redelivered' = [redelivered EXCEPT ![s] = @ + 1]
    /\ inflight' = [inflight EXCEPT ![s] = @ \cup {m}]
    /\ UNCHANGED dbVars
    /\ UNCHANGED <<mounted, convList, convParticipants, selectedConversation, messages, newMessage, isLoading,
                   toasts, subscription, fetches, handlers, received, sendOp, createOp,
                   lastCreated>>
    /\ UNCHANGED <<faults, otherVars>>

\* Mutant: the handler without the look-up of the identifier.
AppendMessage_NoDedupe(prevMessages, m) ==
    Append(prevMessages, m)

\* setMessages(prevMessages => ...): append unless the identifier is there.
AppendMessage(prevMessages, m) ==
    IF \E i \in 1..Len(prevMessages) : prevMessages[i].id = m.id
    THEN prevMessages
    ELSE Append(prevMessages, m)

\* The handler of an insert event, after the profile query.
HandlerComplete(s, m) ==
    /\ BagIn(m, handlers[s])
    /\ handlers' = [handlers EXCEPT ![s] = @ (-) SetToBag({m})]
    /\ messages' = [messages EXCEPT ![s] = AppendMessage(@, m)]
    /\ UNCHANGED dbVars
    /\ UNCHANGED <<mounted, convList, convParticipants, selectedConversation, newMessage, isLoading, toasts,
                   subscription, fetches, inflight, received, redelivered, sendOp, createOp,
                   lastCreated>>
    /\ UNCHANGED <<faults, otherVars>>

\* The calls of createConversationWithUser made so far.
Creates == Cardinality({t \in Sessions : createOp[t] # Idle \/ lastCreated[t] # Idle})

\* createConversationWithUser(otherUser), up to its first await.
CreateConversationWithUser(s, otherUser) ==
    /\ mounted[s] /\ createOp[s] = Idle
    /\ otherUser \in auth_users \ {s}
    /\ Creates < MaxCreates
    /\ createOp' = [createOp EXCEPT ![s] = [stage |-> "conversation", other |-> otherUser,
                                             conv |-> NoConversation]]
    /\ UNCHANGED dbVars
    /\ UNCHANGED <<mounted, convList, convParticipants, selectedConversation, messages, newMessage, isLoading,
                   toasts, subscription, fetches, inflight, handlers, received, redelivered,
                   sendOp, lastCreated>>
    /\ UNCHANGED <<faults, otherVars>>

CreateFailed(s, error) ==
    /\ toasts' = Toast(s, "Failed to create chat")
    /\ createOp' = [createOp EXCEPT ![s] = Idle]
    /\ lastCreated' = [lastCreated EXCEPT ![s] =
                          [stage |-> "failed", other |-> createOp[s].other,
                           conv |-> createOp[s].conv, error |-> error]]

\* createConversationWithUser after an await: the conversation insert
\* (.select().single(): with RETURNING), then the two participant rows in one
\* statement, then fetchConversations and the selection of the new one.
CreateConversationResume(s) ==
    /\ createOp[s] # Idle
    /\ \E ok \in Responses :
          /\ faults' = IF ok THEN faults ELSE faults + 1
          /\ IF createOp[s].stage = "conversation"
             THEN LET row == ConversationRow(NextConversationId, s, s)
                      res == ConversationsInsert(s, row, TRUE)
                  IN  /\ IF ok /\ res.error = Null
                         THEN /\ conversations' = res.tbl
                              /\ createOp' = [createOp EXCEPT ![s].stage = "participants",
                                                              ![s].conv = row.id]
                              /\ UNCHANGED <<toasts, lastCreated>>
                         ELSE /\ CreateFailed(s, IF ok THEN res.error ELSE "network")
                              /\ UNCHANGED conversations
                      /\ UNCHANGED <<conversation_participants, convList, convParticipants, selectedConversation,
                                     subscription, inflight, fetches, feeds>>
             ELSE IF createOp[s].stage = "participants"
             THEN LET c == createOp[s].conv
                      res == ParticipantsInsert(conversation_participants, s,
                                 <<ParticipantRow(c, s), ParticipantRow(c, createOp[s].other)>>, 1)
                  IN  /\ IF ok /\ res.error = Null
                         THEN /\ conversation_participants' = res.tbl
                              /\ toasts' = Toast(s, "Chat created")
                              /\ createOp' = [createOp EXCEPT ![s].stage = "fetch"]
                              /\ UNCHANGED lastCreated
                         ELSE /\ CreateFailed(s, IF ok THEN res.error ELSE "network")
                              /\ UNCHANGED conversation_participants
                      /\ UNCHANGED <<conversations, convList, convParticipants, selectedConversation,
                                     subscription, inflight, fetches, feeds>>
             ELSE /\ IF ok
                     THEN /\ convList' = [convList EXCEPT ![s] = fetchConversations(s)]
                          /\ convParticipants' = [convParticipants EXCEPT ![s] =
                                                     fetchParticipants(s, TRUE)]
                          /\ UNCHANGED toasts
                     ELSE /\ toasts' = Toast(s, "Error loading conversations")
                          /\ UNCHANGED <<convList, convParticipants>>
                  /\ IF selectedConversation[s] # createOp[s].conv
                     THEN SelectionEffect(s, createOp[s].conv)
                     ELSE UNCHANGED <<selectedConversation, subscription, inflight, fetches, feeds>>
                  /\ createOp' = [createOp EXCEPT ![s] = Idle]
                  /\ lastCreated' = [lastCreated EXCEPT ![s] =
                                        [stage |-> "created", other |-> createOp[s].other,
                                         conv |-> createOp[s].conv, error |-> Null]]
                  /\ UNCHANGED <<conversations, conversation_participants>>
    /\ UNCHANGED <<auth_users, profiles, db_messages, now>>
    /\ UNCHANGED <<mounted, messages, newMessage, isLoading, handlers, received, redelivered,
                   sendOp>>
    /\ UNCHANGED restVars

\* The accounts and, in every conversation slot, a conversation that A
\* created and to which A added itself and B: rows the API accepts.
InitChatDB ==
    /\ auth_users = Users
    /\ raw_user_meta_data = [u \in Users |-> NoMetadata]
    /\ profiles = {[user_id |-> u, username |-> Null, display_name |-> Null, last_seen |-> 0] : u \in Users}
    /\ conversations = {ConversationRow(c, "A", "A") : c \in ConvIds}
    /\ conversation_participants =
          SetToBag({ParticipantRow(c, u) : c \in ConvIds, u \in {"A", "B"}})
    /\ db_messages = {}
    /\ now = 0
    /\ InitChat

\* The same, with the requests that fail in transit used up: every request
\* is answered.
InitReliable == InitChatDB /\ faults = MaxFaults

\* The same, with requests that may fail in transit.
InitUnreliable == InitChatDB /\ faults = 0

\* The session that composes, where the other one only views.
Composer == "A"

NextChat ==
    \/ \E s \in Sessions : Mount(s)
    \/ \E s \in Sessions, c \in ConvIds \cup {NoConversation} : SelectConversation(s, c)
    \/ \E s \in Sessions : \E f \in fetches[s] : FetchMessagesQuery(s, f)
    \/ \E s \in Sessions : \E f \in fetches[s] : FetchMessagesApply(s, f)
    \/ \E text \in Texts : TypeMessage(Composer, text)
    \/ SendMessage(Composer)
    \/ SendMessageResume(Composer)
    \/ \E s \in Sessions : \E m \in inflight[s] : FeedDeliver(s, m)
    \/ \E s \in Sessions : \E m \in BagToSet(handlers[s]) : HandlerComplete(s, m)
    \/ \E otherUser \in Users : CreateConversationWithUser(Composer, otherUser)
    \/ CreateConversationResume(Composer)

\* Two pages against the backend, every request being answered.
SpecChat == InitReliable /\ [][NextChat]_vars

\* Another client sends a text message (sendMessage, seen from the backend):
\* the row is inserted and published to the subscribed sessions.
ClientSendsMessage(uid, conversation_id) ==
    LET row == MessageRow(NextMessageId, conversation_id, uid, Some(Hi), None, "text", now, uid)
        res == MessagesInsert(uid, row)
    IN  /\ NextMessageId <= MaxMsgs
        /\ res.error = Null
        /\ db_messages' = res.tbl
        /\ now' = now + 1
        /\ inflight' = Publish(row)
        /\ UNCHANGED <<auth_users, profiles, conversations, conversation_participants>>
        /\ UNCHANGED <<mounted, convList, convParticipants, selectedConversation, messages, newMessage, isLoading,
                       toasts, subscription, fetches, handlers, received, redelivered, sendOp,
                       createOp, lastCreated, faults, otherVars>>

\* The session whose page is followed where the other users are clients.
Viewer == "B"

\* One page against the backend, the other users sending through their own
\* clients, with a feed that may deliver an event more than once; every
\* request is answered.
NextFeed ==
    \/ Mount(Viewer)
    \/ \E c \in ConvIds \cup {NoConversation} : SelectConversation(Viewer, c)
    \/ \E f \in fetches[Viewer] : FetchMessagesQuery(Viewer, f)
    \/ \E f \in fetches[Viewer] : FetchMessagesApply(Viewer, f)
    \/ \E uid \in auth_users, c \in ConvIds : ClientSendsMessage(uid, c)
    \/ \E m \in inflight[Viewer] : FeedDeliver(Viewer, m)
    \/ \E m \in db_messages : FeedRedeliver(Viewer, m)
    \/ \E m \in BagToSet(handlers[Viewer]) : HandlerComplete(Viewer, m)

SpecFeed == InitReliable /\ [][NextFeed]_vars

(***************************************************************************)
(* Presence.  The clock counts minutes; one clock serves the clients and   *)
(* the server.                                                             *)
(***************************************************************************)
\* 5 * 60 * 1000 milliseconds
FiveMinutes == 5

\* Mutant: .gt in place of .gte.
fetchOnlineUsers_Strict(uid, dateNow) ==
    LET fiveMinutesAgo == dateNow - FiveMinutes
    IN  {p.user_id : p \in {q \in SelectProfiles(uid) : q.last_seen > fiveMinutesAgo}}

\* fetchOnlineUsers: .select('user_id').gte('last_seen', fiveMinutesAgo)
fetchOnlineUsers(uid, dateNow) ==
    LET fiveMinutesAgo == dateNow - FiveMinutes
    IN  {p.user_id : p \in {q \in SelectProfiles(uid) : q.last_seen >= fiveMinutesAgo}}

\* fetchOnlineUsers, called by subscribeToPresence on mount and on every
\* change of profiles the feed reports; without an answer, data is null and
\* the set becomes empty.
FetchOnlineUsers(s) ==
    /\ mounted[s] /\ presenceChanged[s]
    /\ presenceChanged' = [presenceChanged EXCEPT ![s] = FALSE]
    /\ \E ok \in Responses :
          /\ onlineUsers' = [onlineUsers EXCEPT ![s] =
                                IF ok THEN fetchOnlineUsers(s, now) ELSE {}]
          /\ faults' = IF ok THEN faults ELSE faults + 1
    /\ UNCHANGED dbVars
    /\ UNCHANGED <<mounted, convList, convParticipants, selectedConversation, messages, newMessage, isLoading,
                   toasts, subscription, fetches, inflight, handlers, received, redelivered,
                   sendOp, createOp, lastCreated, uploadOp, objects>>
    /\ UNCHANGED <<raw_user_meta_data, callUiVars, userProfile, channels, callVars, widgetVars, feeds>>

\* isUserOnline
isUserOnline(s, userId) == userId \in onlineUsers[s]

\* Another client runs updateUserPresence.
ClientUpdatesPresence(uid) ==
    /\ profiles' = updateUserPresence(uid)
    /\ presenceChanged' = ProfilesChanged
    /\ UNCHANGED <<auth_users, conversations, conversation_participants, db_messages, now>>
    /\ UNCHANGED <<pageVars, storeVars, raw_user_meta_data, callUiVars, userProfile, channels, callVars,
                   widgetVars, feeds>>

\* A minute passes.
Tick ==
    /\ now < MaxNow
    /\ now' = now + 1
    /\ UNCHANGED <<auth_users, profiles, conversations, conversation_participants, db_messages>>
    /\ UNCHANGED chatVars

\* One page and the other users' clients, as time passes.
NextPresence ==
    \/ Mount(Viewer)
    \/ FetchOnlineUsers(Viewer)
    \/ \E uid \in auth_users : ClientUpdatesPresence(uid)
    \/ Tick

SpecPresence == InitUnreliable /\ [][NextPresence]_vars

\* A minute passes, without end: once the clock has reached MaxNow it is
\* held there and every last_seen is moved one minute back instead, which
\* keeps each profile's age up to the window (MaxNow exceeds FiveMinutes, so
\* an age that is cut at MaxNow is still outside the window).
Elapse ==
    /\ IF now < MaxNow
       THEN /\ now' = now + 1
            /\ UNCHANGED profiles
       ELSE /\ profiles' = {[p EXCEPT !.last_seen = IF @ > 0 THEN @ - 1 ELSE 0] : p \in profiles}
            /\ UNCHANGED now
    /\ UNCHANGED <<auth_users, conversations, conversation_participants, db_messages>>
    /\ UNCHANGED chatVars

\* One open page and the other users' clients, as time passes without end.
NextPresenceLive ==
    \/ Mount(Viewer)
    \/ FetchOnlineUsers(Viewer)
    \/ \E uid \in auth_users : ClientUpdatesPresence(uid)
    \/ Elapse

\* The call of fetchOnlineUsers that the mount or a change of profiles has
\* made due runs, and time passes; nothing obliges a user to open the page
\* or to write a profile.
SpecPresenceLive ==
    /\ InitUnreliable
    /\ [][NextPresenceLive]_vars
    /\ WF_vars(FetchOnlineUsers(Viewer))
    /\ WF_vars(Elapse)

(***************************************************************************)
(* uploadImage.                                                            *)
(***************************************************************************)
ImageJpeg == <<"i", "m", "a", "g", "e", "/", "j", "p", "e", "g">>
TextPlain == <<"t", "e", "x", "t", "/", "p", "l", "a", "i", "n">>
ImageNoSlash == <<"i", "m", "a", "g", "e">>

\* The MIME types of the files selected: the last is the type of a file the
\* browser does not recognise.
FileTypes == {ImageJpeg, TextPlain, ImageNoSlash, <<>>}

MB == 1024 * 1024

\* The sizes of the files selected, in bytes.
FileSizes == {2 * MB, 10 * MB, 10 * MB + 1, 11 * MB}

Files == [type : FileTypes, size : FileSizes]

\* String.prototype.startsWith
StartsWith(str, prefix) ==
    Len(str) >= Len(prefix) /\ \A i \in 1..Len(prefix) : str[i] = prefix[i]

\* Mutant: the validation without the size limit.
UploadRejection_TypeOnly(file) ==
    IF ~StartsWith(file.type, <<"i", "m", "a", "g", "e", "/">>) THEN "Invalid file type"
    ELSE Null

\* The validation of uploadImage: the title of the toast that rejects the
\* file, or Null.
UploadRejection(file) ==
    IF ~StartsWith(file.type, <<"i", "m", "a", "g", "e", "/">>) THEN "Invalid file type"
    ELSE IF file.size > 10 * 1024 * 1024 THEN "File too large"
    ELSE Null

\* The inserts into messages that calls in progress may still make.
PendingUploads == Cardinality({t \in Sessions : uploadOp[t].stage \notin {"idle", "sent"}})

\* onChange of the file input (its button is disabled while isLoading), up to
\* the first await.
UploadImage(s, file) ==
    /\ ComposerShown(s) /\ ~isLoading[s]
    /\ uploadOp[s].stage \in {"idle", "sent"}
    /\ IF UploadRejection(file) # Null
       THEN /\ toasts' = Toast(s, UploadRejection(file))
            /\ UNCHANGED <<isLoading, uploadOp>>
       ELSE /\ Cardinality(db_messages) + PendingSends + PendingUploads < MaxSends
            /\ isLoading' = [isLoading EXCEPT ![s] = TRUE]
            /\ uploadOp' = [uploadOp EXCEPT ![s] =
                               [stage |-> "presence", conv |-> selectedConversation[s],
                                name |-> ObjectName(s, 0)]]
            /\ UNCHANGED toasts
    /\ UNCHANGED dbVars
    /\ UNCHANGED <<mounted, convList, convParticipants, selectedConversation, messages, newMessage,
                   subscription, fetches, inflight, handlers, received, redelivered, sendOp,
                   createOp, lastCreated, faults, onlineUsers, objects>>
    /\ UNCHANGED <<raw_user_meta_data, callUiVars, sessionVars, callVars, widgetVars, feeds>>

UploadFailed(s) ==
    /\ toasts' = Toast(s, "Failed to send image")
    /\ uploadOp' = [uploadOp EXCEPT ![s] = Idle]

\* uploadImage after an await: after updateUserPresence the object is named
\* and uploaded; after the upload the message with the public URL is
\* inserted; then the outcome is shown and isLoading is reset.  A call that
\* sent its image leaves its conversation and object name behind (history).
UploadImageResume(s) ==
    /\ uploadOp[s].stage \in {"presence", "upload", "insert"}
    /\ IF uploadOp[s].stage = "presence"
       THEN \E ok \in Responses :
            /\ profiles' = IF ok THEN updateUserPresence(s) ELSE profiles
            /\ presenceChanged' = IF ok THEN ProfilesChanged ELSE presenceChanged
            /\ faults' = IF ok THEN faults ELSE faults + 1
            /\ uploadOp' = [uploadOp EXCEPT ![s].stage = "upload",
                                            ![s].name = ObjectName(s, now)]
            /\ UNCHANGED <<db_messages, now, objects, inflight, toasts, isLoading>>
       ELSE IF uploadOp[s].stage = "upload"
       THEN \E ok \in Responses :
            LET res == ObjectsInsert(s, ObjectRow("chat-images", uploadOp[s].name, s))
                stored == ok /\ res.error = Null
            IN  /\ objects' = IF stored THEN res.tbl ELSE objects
                /\ IF stored
                   THEN /\ uploadOp' = [uploadOp EXCEPT ![s].stage = "insert"]
                        /\ UNCHANGED <<toasts, isLoading>>
                   ELSE /\ UploadFailed(s)
                        /\ isLoading' = [isLoading EXCEPT ![s] = FALSE]
                /\ faults' = IF ok THEN faults ELSE faults + 1
                /\ UNCHANGED <<profiles, presenceChanged, db_messages, now, inflight>>
       ELSE \E ok \in Responses :
            LET row == MessageRow(NextMessageId, uploadOp[s].conv, s, None,
                                  Some(getPublicUrl("chat-images", uploadOp[s].name)),
                                  "image", now, s)
                res == MessagesInsert(s, row)
                sent == ok /\ res.error = Null
            IN  /\ db_messages' = IF sent THEN res.tbl ELSE db_messages
                /\ now' = IF sent THEN now + 1 ELSE now
                /\ inflight' = IF sent THEN Publish(row) ELSE inflight
                /\ IF sent
                   THEN /\ toasts' = Toast(s, "Image sent")
                        /\ uploadOp' = [uploadOp EXCEPT ![s].stage = "sent"]
                   ELSE UploadFailed(s)
                /\ isLoading' = [isLoading EXCEPT ![s] = FALSE]
                /\ faults' = IF ok THEN faults ELSE faults + 1
                /\ UNCHANGED <<profiles, presenceChanged, objects>>
    /\ UNCHANGED <<auth_users, conversations, conversation_participants>>
    /\ UNCHANGED <<mounted, convList, convParticipants, selectedConversation, messages, newMessage,
                   subscription, fetches, handlers, received, redelivered, sendOp,
                   createOp, lastCreated, onlineUsers>>
    /\ UNCHANGED <<raw_user_meta_data, callUiVars, userProfile, channels, callVars, widgetVars, feeds>>

\* One page on which images are uploaded and shown, every request being
\* answered.
NextUpload ==
    \/ Mount(Composer)
    \/ \E c \in ConvIds \cup {NoConversation} : SelectConversation(Composer, c)
    \/ \E file \in Files : UploadImage(Composer, file)
    \/ UploadImageResume(Composer)
    \/ \E f \in fetches[Composer] : FetchMessagesQuery(Composer, f)
    \/ \E f \in fetches[Composer] : FetchMessagesApply(Composer, f)
    \/ \E m \in inflight[Composer] : FeedDeliver(Composer, m)
    \/ \E m \in BagToSet(handlers[Composer]) : HandlerComplete(Composer, m)

SpecUpload == InitReliable /\ [][NextUpload]_vars

(***************************************************************************)
(* Video calls on the chat page.                                           *)
(***************************************************************************)
\* `chatapp-${Date.now()}-${Math.random()...}`: the room of a call.
Rooms == {"room1", "room2"}

\* currentConv.participants, as fetchConversations loaded them.
Participants(s, c) == IF c \in convList[s] THEN convParticipants[s][c] ELSE {}

\* Mutant: the filter p.user_id !== user.id left out.
OtherParticipants_AnyParticipant(s, c) == Participants(s, c)

\* currentConv?.participants?.filter(p => p.user_id !== user.id)
OtherParticipants(s, c) == Participants(s, c) \ {s}

\* api.dispose() of the widget w, or nothing when there is none.
Dispose(set, w) == IF w = None THEN set ELSE set \ {w[1]}

\* The widgets still to be created fit the bound.
WidgetsLeft(s) == (nextWidget[s] - 1) + Cardinality(scripts[s]) < MaxWidgets

\* VideoCall's useEffect([isOpen, roomUrl]) after a render in which isOpen or
\* roomUrl changed: the cleanup of the previous effect disposes the api that
\* effect's render had; then, when open, initJitsi.  The container ref is or
\* is not attached yet when the effect runs, as the dialog's portal mounts
\* its content.  Without the container nothing happens; without the script
\* the script is requested; else startJitsiMeeting creates a widget.  The new
\* cleanup captures the api of this render.
VideoCallEffect(s, isOpen, roomUrl) ==
    /\ cleanupApi' = [cleanupApi EXCEPT ![s] = api[s]]
    /\ \E attached \in BOOLEAN :
       \E roomName \in (IF roomUrl # EmptyUrl THEN {RoomNameOf(roomUrl)} ELSE Rooms) :
          IF isOpen /\ attached /\ jitsiLoaded[s]
          THEN /\ live' = [live EXCEPT ![s] = Dispose(@, cleanupApi[s]) \cup {nextWidget[s]}]
               /\ api' = [api EXCEPT ![s] = Some(nextWidget[s])]
               /\ nextWidget' = [nextWidget EXCEPT ![s] = @ + 1]
               /\ widgetRoom' = [widgetRoom EXCEPT ![s] = Append(@, roomName)]
               /\ UNCHANGED scripts
          ELSE /\ live' = [live EXCEPT ![s] = Dispose(@, cleanupApi[s])]
               /\ scripts' = [scripts EXCEPT ![s] =
                                 IF isOpen /\ attached THEN @ \cup {roomName} ELSE @]
               /\ UNCHANGED <<api, nextWidget, widgetRoom>>

\* startVideoCall, up to its first await.
StartVideoCall(s) ==
    /\ mounted[s] /\ ~showVideoCall[s] /\ incomingCall[s] = None
    /\ WidgetsLeft(s) /\ Len(callLog[s]) < MaxCalls
    /\ callOp[s].stage \in {"idle", "done"}
    /\ selectedConversation[s] # NoConversation /\ userProfile[s]
    /\ LET otherParticipants == OtherParticipants(s, selectedConversation[s])
       IN  IF otherParticipants = {}
           THEN /\ toasts' = Toast(s, "Cannot start call")
                /\ UNCHANGED <<showVideoCall, videoCallUrl, callOp, callLog, widgetVars>>
           ELSE \E roomName \in Rooms :
                LET room == JitsiRoomUrl(roomName)
                IN
                /\ videoCallUrl' = [videoCallUrl EXCEPT ![s] = room]
                /\ showVideoCall' = [showVideoCall EXCEPT ![s] = TRUE]
                /\ VideoCallEffect(s, TRUE, room)
                /\ UNCHANGED <<isJoined, jitsiLoaded>>
                /\ callOp' = [callOp EXCEPT ![s] =
                                 [stage |-> "broadcast", conv |-> selectedConversation[s],
                                  roomUrl |-> room, todo |-> otherParticipants]]
                /\ callLog' = [callLog EXCEPT ![s] =
                                  Append(@, [roomUrl |-> room, conv |-> selectedConversation[s],
                                             sent |-> EmptyBag])]
                /\ UNCHANGED toasts
    /\ UNCHANGED dbVars
    /\ UNCHANGED <<mounted, convList, convParticipants, selectedConversation, messages, newMessage, isLoading,
                   subscription, fetches, inflight, handlers, received, redelivered, sendOp,
                   createOp, lastCreated, faults>>
    /\ UNCHANGED <<feeds, storeVars, raw_user_meta_data, callUiVars, sessionVars, incomingCall, callInbox>>

\* startVideoCall resumes: one channel.send of the loop, or, after the loop,
\* the insert of the call notice, whose result is not read.
StartVideoCallResume(s) ==
    /\ callOp[s].stage \in {"broadcast", "insert"}
    /\ \E ok \in Responses :
        /\ faults' = IF ok THEN faults ELSE faults + 1
        /\ IF callOp[s].stage = "broadcast"
           THEN \E p \in callOp[s].todo :
                LET payload == [roomUrl |-> callOp[s].roomUrl, caller |-> s,
                                conversationId |-> callOp[s].conv]
                    rest == callOp[s].todo \ {p}
                IN  /\ callInbox' = IF ok /\ p \in Sessions /\ BagIn("calls", channels[p])
                                     THEN [callInbox EXCEPT ![p] = @ \cup {payload}]
                                     ELSE callInbox
                    /\ callOp' = [callOp EXCEPT ![s].todo = rest,
                                                ![s].stage = IF rest = {} THEN "insert" ELSE @]
                    /\ callLog' = [callLog EXCEPT ![s][Len(callLog[s])].sent = @ (+) SetToBag({p})]
                    /\ UNCHANGED <<db_messages, now, inflight>>
           ELSE LET row == MessageRow(NextMessageId, callOp[s].conv, s, Some(Hi), None,
                                      "call_info", now, s)
                    res == MessagesInsert(s, row)
                    sent == ok /\ res.error = Null
                IN  /\ db_messages' = IF sent THEN res.tbl ELSE db_messages
                    /\ now' = IF sent THEN now + 1 ELSE now
                    /\ inflight' = IF sent THEN Publish(row) ELSE inflight
                    /\ callOp' = [callOp EXCEPT ![s] = [stage |-> "done", conv |-> callOp[s].conv]]
                    /\ UNCHANGED <<callInbox, callLog>>
    /\ UNCHANGED <<auth_users, profiles, conversations, conversation_participants>>
    /\ UNCHANGED <<mounted, convList, convParticipants, selectedConversation, messages, newMessage, isLoading,
                   toasts, subscription, fetches, handlers, received, redelivered, sendOp,
                   createOp, lastCreated>>
    /\ UNCHANGED <<feeds, storeVars, raw_user_meta_data, callUiVars, sessionVars, showVideoCall, videoCallUrl,
                   incomingCall, widgetVars>>

\* The 'incoming_call' handler of subscribeToCalls.
ReceiveCall(s, payload) ==
    /\ payload \in callInbox[s]
    /\ callInbox' = [callInbox EXCEPT ![s] = @ \ {payload}]
    /\ incomingCall' = IF mounted[s] /\ payload.caller # s
                       THEN [incomingCall EXCEPT ![s] = Some(payload)]
                       ELSE incomingCall
    /\ UNCHANGED <<dbVars, pageVars>>
    /\ UNCHANGED <<feeds, storeVars, raw_user_meta_data, callUiVars, sessionVars, showVideoCall, videoCallUrl, callOp,
                   callLog, widgetVars>>

acceptCall(s) ==
    /\ mounted[s] /\ incomingCall[s] # None
    /\ WidgetsLeft(s)
    /\ IF ~showVideoCall[s] \/ videoCallUrl[s] # incomingCall[s][1].roomUrl
       THEN VideoCallEffect(s, TRUE, incomingCall[s][1].roomUrl) /\ UNCHANGED <<isJoined, jitsiLoaded>>
       ELSE UNCHANGED widgetVars
    /\ videoCallUrl' = [videoCallUrl EXCEPT ![s] = incomingCall[s][1].roomUrl]
    /\ IF incomingCall[s][1].conversationId # selectedConversation[s]
       THEN SelectionEffect(s, incomingCall[s][1].conversationId)
       ELSE UNCHANGED <<selectedConversation, subscription, inflight, fetches, feeds>>
    /\ showVideoCall' = [showVideoCall EXCEPT ![s] = TRUE]
    /\ incomingCall' = [incomingCall EXCEPT ![s] = None]
    /\ UNCHANGED dbVars
    /\ UNCHANGED <<mounted, convList, convParticipants, messages, newMessage, isLoading, toasts, handlers,
                   received, redelivered, sendOp, createOp, lastCreated, faults>>
    /\ UNCHANGED <<storeVars, raw_user_meta_data, callUiVars, sessionVars, callInbox, callOp, callLog>>

declineCall(s) ==
    /\ mounted[s] /\ incomingCall[s] # None
    /\ incomingCall' = [incomingCall EXCEPT ![s] = None]
    /\ UNCHANGED <<dbVars, pageVars>>
    /\ UNCHANGED <<feeds, storeVars, raw_user_meta_data, callUiVars, sessionVars, showVideoCall, videoCallUrl,
                   callInbox, callOp, callLog, widgetVars>>

\* The dialog's onOpenChange (Escape, the close button, a click outside):
\* onClose, which is setShowVideoCall(false).
CloseVideoCall(s) ==
    /\ mounted[s] /\ showVideoCall[s]
    /\ showVideoCall' = [showVideoCall EXCEPT ![s] = FALSE]
    /\ VideoCallEffect(s, FALSE, videoCallUrl[s])
    /\ UNCHANGED <<isJoined, jitsiLoaded>>
    /\ UNCHANGED <<dbVars, pageVars>>
    /\ UNCHANGED <<feeds, storeVars, raw_user_meta_data, callUiVars, sessionVars, videoCallUrl, incomingCall,
                   callInbox, callOp, callLog>>

(***************************************************************************)
(* The VideoCall component.                                                *)
(***************************************************************************)
\* script.onload, which runs startJitsiMeeting(roomName) and creates a widget
\* when the container is there, or script.onerror.
ScriptLoaded(s, roomName) ==
    /\ roomName \in scripts[s]
    /\ scripts' = [scripts EXCEPT ![s] = @ \ {roomName}]
    /\ \E loaded \in BOOLEAN :
          IF loaded
          THEN /\ jitsiLoaded' = [jitsiLoaded EXCEPT ![s] = TRUE]
               /\ IF showVideoCall[s]
                  THEN /\ live' = [live EXCEPT ![s] = @ \cup {nextWidget[s]}]
                       /\ api' = [api EXCEPT ![s] = Some(nextWidget[s])]
                       /\ nextWidget' = [nextWidget EXCEPT ![s] = @ + 1]
                       /\ widgetRoom' = [widgetRoom EXCEPT ![s] = Append(@, roomName)]
                  ELSE UNCHANGED <<live, api, nextWidget, widgetRoom>>
               /\ UNCHANGED <<isJoined, toasts>>
          ELSE /\ isJoined' = [isJoined EXCEPT ![s] = FALSE]
               /\ toasts' = Toast(s, "Error")
               /\ UNCHANGED <<jitsiLoaded, live, api, nextWidget, widgetRoom>>
    /\ UNCHANGED dbVars
    /\ UNCHANGED <<mounted, convList, convParticipants, selectedConversation, messages, newMessage, isLoading,
                   subscription, fetches, inflight, handlers, received, redelivered, sendOp,
                   createOp, lastCreated, faults>>
    /\ UNCHANGED <<feeds, storeVars, raw_user_meta_data, callUiVars, sessionVars, callVars, cleanupApi>>

\* The widget in the open dialog reports 'videoConferenceJoined'.
VideoConferenceJoined(s) ==
    /\ showVideoCall[s] /\ api[s] # None /\ api[s][1] \in live[s]
    /\ isJoined' = [isJoined EXCEPT ![s] = TRUE]
    /\ toasts' = Toast(s, "Call Connected")
    /\ reported' = [reported EXCEPT ![s][api[s][1]].joined = TRUE]
    /\ UNCHANGED dbVars
    /\ UNCHANGED <<mounted, convList, convParticipants, selectedConversation, messages, newMessage, isLoading,
                   subscription, fetches, inflight, handlers, received, redelivered, sendOp,
                   createOp, lastCreated, faults>>
    /\ UNCHANGED <<feeds, storeVars, raw_user_meta_data, participants, isCameraOn, isMicOn, sessionVars,
                   callVars>>
    /\ UNCHANGED <<api, cleanupApi, live, nextWidget, scripts, jitsiLoaded, widgetRoom>>

\* The widget in the open dialog reports 'videoConferenceLeft' or
\* 'readyToClose' (its hangup button): setIsJoined(false) and onClose().
VideoConferenceLeft(s) ==
    /\ showVideoCall[s] /\ api[s] # None /\ api[s][1] \in live[s]
    /\ isJoined' = [isJoined EXCEPT ![s] = FALSE]
    /\ reported' = [reported EXCEPT ![s][api[s][1]].joined = FALSE]
    /\ showVideoCall' = [showVideoCall EXCEPT ![s] = FALSE]
    /\ VideoCallEffect(s, FALSE, videoCallUrl[s])
    /\ UNCHANGED <<dbVars, pageVars>>
    /\ UNCHANGED <<feeds, storeVars, raw_user_meta_data, participants, isCameraOn, isMicOn, sessionVars,
                   videoCallUrl, incomingCall,
                   callInbox, callOp, callLog, jitsiLoaded>>

\* leaveCall, the button shown once joined: dispose the api of this render,
\* setApi(null), setIsJoined(false), onClose(); the effect then runs for the
\* render with isOpen false and api null.
leaveCall(s) ==
    /\ showVideoCall[s] /\ isJoined[s]
    /\ live' = [live EXCEPT ![s] = Dispose(Dispose(@, api[s]), cleanupApi[s])]
    /\ api' = [api EXCEPT ![s] = None]
    /\ cleanupApi' = [cleanupApi EXCEPT ![s] = None]
    /\ isJoined' = [isJoined EXCEPT ![s] = FALSE]
    /\ showVideoCall' = [showVideoCall EXCEPT ![s] = FALSE]
    /\ UNCHANGED <<dbVars, pageVars>>
    /\ UNCHANGED <<feeds, storeVars, raw_user_meta_data, callUiVars, sessionVars, videoCallUrl, incomingCall,
                   callInbox, callOp, callLog, nextWidget, scripts, jitsiLoaded, widgetRoom>>

\* The remote participants of a room, by their Jitsi ids.
Remotes == {"r1"}

\* The call UI state and the widget reports left alone.
CallUiUnchanged ==
    /\ UNCHANGED <<dbVars, pageVars>>
    /\ UNCHANGED <<feeds, storeVars, raw_user_meta_data, sessionVars, callVars, widgetVars>>

\* setParticipants(prev => prev.filter(p => p.id !== participant.id))
RECURSIVE FilterOut(_, _)
FilterOut(prev, id) ==
    IF prev = <<>> THEN <<>>
    ELSE IF Head(prev) = id THEN FilterOut(Tail(prev), id)
         ELSE <<Head(prev)>> \o FilterOut(Tail(prev), id)

\* A widget that was not disposed reports 'participantJoined':
\* setParticipants(prev => [...prev, participant]).
ParticipantJoined(s, w, p) ==
    /\ mounted[s] /\ w \in live[s]
    /\ p \notin reported[s][w].participants
    /\ reported' = [reported EXCEPT ![s][w].participants = @ \cup {p}]
    /\ participants' = [participants EXCEPT ![s] = Append(@, p)]
    /\ UNCHANGED <<isCameraOn, isMicOn>>
    /\ CallUiUnchanged

\* A widget that was not disposed reports 'participantLeft'.
ParticipantLeft(s, w, p) ==
    /\ mounted[s] /\ w \in live[s]
    /\ p \in reported[s][w].participants
    /\ reported' = [reported EXCEPT ![s][w].participants = @ \ {p}]
    /\ participants' = [participants EXCEPT ![s] = FilterOut(@, p)]
    /\ UNCHANGED <<isCameraOn, isMicOn>>
    /\ CallUiUnchanged

\* 'audioMuteStatusChanged': setIsMicOn(!event.muted).
AudioMuteStatusChanged(s, w, muted) ==
    /\ mounted[s] /\ w \in live[s]
    /\ reported[s][w].audioMuted # Some(muted)
    /\ reported' = [reported EXCEPT ![s][w].audioMuted = Some(muted)]
    /\ isMicOn' = [isMicOn EXCEPT ![s] = ~muted]
    /\ UNCHANGED <<participants, isCameraOn>>
    /\ CallUiUnchanged

\* 'videoMuteStatusChanged': setIsCameraOn(!event.muted).
VideoMuteStatusChanged(s, w, muted) ==
    /\ mounted[s] /\ w \in live[s]
    /\ reported[s][w].videoMuted # Some(muted)
    /\ reported' = [reported EXCEPT ![s][w].videoMuted = Some(muted)]
    /\ isCameraOn' = [isCameraOn EXCEPT ![s] = ~muted]
    /\ UNCHANGED <<participants, isMicOn>>
    /\ CallUiUnchanged

\* The composer's VideoCall component and what its widgets report; every
\* request is answered.
NextMirror ==
    \/ Mount(Composer)
    \/ StartVideoCall(Composer)
    \/ StartVideoCallResume(Composer)
    \/ CloseVideoCall(Composer)
    \/ \E roomName \in Rooms : ScriptLoaded(Composer, roomName)
    \/ VideoConferenceJoined(Composer)
    \/ VideoConferenceLeft(Composer)
    \/ leaveCall(Composer)
    \/ \E w \in live[Composer], p \in Remotes : ParticipantJoined(Composer, w, p)
    \/ \E w \in live[Composer], p \in Remotes : ParticipantLeft(Composer, w, p)
    \/ \E w \in live[Composer], muted \in BOOLEAN : AudioMuteStatusChanged(Composer, w, muted)
    \/ \E w \in live[Composer], muted \in BOOLEAN : VideoMuteStatusChanged(Composer, w, muted)

SpecMirror == InitReliable /\ [][NextMirror]_vars

\* The composer's VideoCall component, opened by its own calls and by the
\* viewer's invitation; every request is answered.
NextWidget ==
    \/ \E s \in Sessions : Mount(s)
    \/ \E s \in Sessions : StartVideoCall(s)
    \/ \E s \in Sessions : StartVideoCallResume(s)
    \/ \E payload \in callInbox[Composer] : ReceiveCall(Composer, payload)
    \/ acceptCall(Composer)
    \/ declineCall(Composer)
    \/ CloseVideoCall(Composer)
    \/ \E roomName \in Rooms : ScriptLoaded(Composer, roomName)
    \/ VideoConferenceJoined(Composer)
    \/ VideoConferenceLeft(Composer)
    \/ leaveCall(Composer)

SpecWidget == InitReliable /\ [][NextWidget]_vars

(***************************************************************************)
(* Leaving the chat page.                                                  *)
(***************************************************************************)
\* The Chat component unmounts, no operation of the page being in progress:
\* the cleanup of useEffect([selectedConversation]) unsubscribes the message
\* channel; useEffect([user]) returned no cleanup, so the channels of
\* subscribeToPresence and subscribeToCalls stay; VideoCall's cleanup
\* disposes the api it captured; the state of both components is dropped,
\* and answers that arrive later set nothing.
Unmount(s) ==
    /\ mounted[s]
    /\ sendOp[s] = Idle /\ createOp[s] = Idle
    /\ uploadOp[s].stage \in {"idle", "sent"} /\ callOp[s].stage \in {"idle", "done"}
    /\ mounted' = [mounted EXCEPT ![s] = FALSE]
    /\ feeds' = [feeds EXCEPT ![s] = @ (-) Opened(subscription[s])]
    /\ subscription' = [subscription EXCEPT ![s] = NoConversation]
    /\ selectedConversation' = [selectedConversation EXCEPT ![s] = NoConversation]
    /\ convList' = [convList EXCEPT ![s] = {}]
    /\ convParticipants' = [convParticipants EXCEPT ![s] = [c \in ConvIds |-> {}]]
    /\ messages' = [messages EXCEPT ![s] = <<>>]
    /\ newMessage' = [newMessage EXCEPT ![s] = <<>>]
    /\ fetches' = [fetches EXCEPT ![s] = {}]
    /\ inflight' = [inflight EXCEPT ![s] = {}]
    /\ handlers' = [handlers EXCEPT ![s] = EmptyBag]
    /\ userProfile' = [userProfile EXCEPT ![s] = FALSE]
    /\ presenceChanged' = [presenceChanged EXCEPT ![s] = FALSE]
    /\ onlineUsers' = [onlineUsers EXCEPT ![s] = {}]
    /\ showVideoCall' = [showVideoCall EXCEPT ![s] = FALSE]
    /\ videoCallUrl' = [videoCallUrl EXCEPT ![s] = EmptyUrl]
    /\ incomingCall' = [incomingCall EXCEPT ![s] = None]
    /\ live' = [live EXCEPT ![s] = Dispose(@, cleanupApi[s])]
    /\ api' = [api EXCEPT ![s] = None]
    /\ cleanupApi' = [cleanupApi EXCEPT ![s] = None]
    /\ isJoined' = [isJoined EXCEPT ![s] = FALSE]
    /\ UNCHANGED dbVars
    /\ UNCHANGED <<isLoading, toasts, received, redelivered, sendOp, createOp, lastCreated, faults>>
    /\ participants' = [participants EXCEPT ![s] = <<>>]
    /\ isCameraOn' = [isCameraOn EXCEPT ![s] = TRUE]
    /\ isMicOn' = [isMicOn EXCEPT ![s] = TRUE]
    /\ UNCHANGED <<uploadOp, objects, raw_user_meta_data, reported, channels, callInbox, callOp, callLog,
                   nextWidget, scripts, jitsiLoaded, widgetRoom>>

\* One page, mounted, browsed and left, while another client sends messages.
NextSession ==
    \/ Mount(Viewer)
    \/ \E c \in ConvIds \cup {NoConversation} : SelectConversation(Viewer, c)
    \/ \E f \in fetches[Viewer] : FetchMessagesQuery(Viewer, f)
    \/ \E f \in fetches[Viewer] : FetchMessagesApply(Viewer, f)
    \/ Unmount(Viewer)
    \/ \E m \in inflight[Viewer] : FeedDeliver(Viewer, m)
    \/ \E m \in BagToSet(handlers[Viewer]) : HandlerComplete(Viewer, m)
    \/ \E c \in ConvIds : ClientSendsMessage(Composer, c)

SpecSession == InitReliable /\ [][NextSession]_vars

\* The composer calls, the viewer is called; every request is answered.
NextCall ==
    \/ \E s \in Sessions : Mount(s)
    \/ \E c \in ConvIds \cup {NoConversation} : SelectConversation(Composer, c)
    \/ \E s \in Sessions : \E f \in fetches[s] : FetchMessagesQuery(s, f)
    \/ \E s \in Sessions : \E f \in fetches[s] : FetchMessagesApply(s, f)
    \/ StartVideoCall(Composer)
    \/ StartVideoCallResume(Composer)
    \/ \E payload \in callInbox[Viewer] : ReceiveCall(Viewer, payload)
    \/ acceptCall(Viewer)
    \/ declineCall(Viewer)
    \/ CloseVideoCall(Viewer)

SpecCall == InitReliable /\ [][NextCall]_vars


\* The composer calls and the viewer answers, each with its VideoCall
\* component; every request is answered.
NextAccept ==
    \/ \E s \in Sessions : Mount(s)
    \/ \E c \in ConvIds \cup {NoConversation} : SelectConversation(Viewer, c)
    \/ StartVideoCall(Composer)
    \/ StartVideoCallResume(Composer)
    \/ \E payload \in callInbox[Viewer] : ReceiveCall(Viewer, payload)
    \/ acceptCall(Viewer)
    \/ declineCall(Viewer)
    \/ \E s \in Sessions : CloseVideoCall(s)
    \/ \E s \in Sessions : \E roomName \in Rooms : ScriptLoaded(s, roomName)

SpecAccept == InitReliable /\ [][NextAccept]_vars

\* The composer opens and leaves the page and calls, the viewer is called,
\* and requests may fail in transit.
NextInvite ==
    \/ \E s \in Sessions : Mount(s)
    \/ Unmount(Composer)
    \/ StartVideoCall(Composer)
    \/ StartVideoCallResume(Composer)
    \/ \E s \in Sessions : \E payload \in callInbox[s] : ReceiveCall(s, payload)
    \/ declineCall(Viewer)

SpecInvite == InitUnreliable /\ [][NextInvite]_vars

\* One page on which every operation that calls the backend is used, and
\* requests may fail in transit.
NextFailures ==
    \/ Mount(Composer)
    \/ \E f \in fetches[Composer] : FetchMessagesQuery(Composer, f)
    \/ \E f \in fetches[Composer] : FetchMessagesApply(Composer, f)
    \/ \E text \in Texts : TypeMessage(Composer, text)
    \/ SendMessage(Composer)
    \/ SendMessageResume(Composer)
    \/ \E file \in Files : UploadImage(Composer, file)
    \/ UploadImageResume(Composer)
    \/ \E otherUser \in Users : CreateConversationWithUser(Composer, otherUser)
    \/ CreateConversationResume(Composer)
    \/ StartVideoCall(Composer)
    \/ StartVideoCallResume(Composer)
    \/ FetchOnlineUsers(Composer)

SpecFailures == InitUnreliable /\ [][NextFailures]_vars

(***************************************************************************)
(* Properties of the chat page.                                            *)
(***************************************************************************)
\* How many entries of a message list carry the identifier.
Count(list, id) == Cardinality({i \in 1..Len(list) : list[i].id = id})

\* C4 (feed idempotence): a local message list never holds two entries with
\* one identifier; completing the handler of an insert event, however often
\* the event was delivered, leaves exactly one entry with the message's
\* identifier; and so does applying a reload that returns the message.
C4_FeedIdempotence ==
    \A s \in Sessions :
        /\ \A i, j \in 1..Len(messages[s]) :
              messages[s][i].id = messages[s][j].id => i = j
        /\ \A m \in BagToSet(handlers[s]) :
              Count(AppendMessage(messages[s], m), m.id) = 1
        /\ \A f \in fetches[s] :
              f.stage = "profiles" =>
                  \A i \in 1..Len(f.data) : Count(f.data, f.data[i].id) = 1

\* The event of one message was delivered to a session twice, both handlers
\* have completed, and the list shows the message once.
C4_Witness ==
    \E s \in Sessions : \E m \in db_messages :
        /\ TimesReceived(s, m.id) >= 2
        /\ ~BagIn(m, handlers[s])
        /\ m \notin inflight[s]
        /\ Count(messages[s], m.id) = 1

\* C5 (end-to-end delivery): once createConversationWithUser has returned in
\* a session with every request answered, the conversation exists with the
\* caller and the other user as its participants; and a "hi" the caller has
\* sent to it was delivered at most once to the other user's session, which,
\* subscribed to the conversation and with nothing pending, shows it once.
C5_EndToEndDelivery ==
    \A a \in Sessions :
        (lastCreated[a] # Idle /\ lastCreated[a].error # "network") =>
            LET c == lastCreated[a].conv
                b == lastCreated[a].other
            IN  /\ \E conv \in conversations : conv.id = c /\ conv.created_by = a
                /\ HasParticipantRow(a, c)
                /\ HasParticipantRow(b, c)
                /\ \A m \in db_messages :
                      (/\ m.conversation_id = c /\ m.sender_id = a /\ m.content = Some(Hi)
                       /\ b \in Sessions) =>
                          /\ TimesReceived(b, m.id) <= 1
                          /\ (/\ subscription[b] = c
                              /\ m \notin inflight[b]
                              /\ handlers[b] = EmptyBag
                              /\ fetches[b] = {}) => Count(messages[b], m.id) = 1

\* C6 (presence window): when a session computes the online set and the
\* query is answered, a profile is reported online if and only if its
\* last_seen is no more than 5 minutes before the query time.
C6_PresenceWindow ==
    [][\A s \in Sessions :
          (FetchOnlineUsers(s) /\ faults' = faults) =>
              \A p \in profiles :
                  isUserOnline(s, p.user_id)' <=> (now - p.last_seen <= 5)]_vars

\* A session has computed the online set at a time when one profile's
\* last_seen is 4 minutes old, reported online, and another's 6, reported
\* offline.
C6_Witness ==
    \E s \in Sessions : \E p, q \in profiles :
        /\ now - p.last_seen = 4 /\ isUserOnline(s, p.user_id)
        /\ now - q.last_seen = 6 /\ ~isUserOnline(s, q.user_id)
        /\ onlineUsers[s] = fetchOnlineUsers(s, now)

\* C7 (upload validation): for a selected file whose MIME type does not start
\* with image/ or whose size exceeds 10 MB, uploadImage makes no backend call
\* (no row of any table or of the storage changes and no call is left in
\* progress), shows a notification, and leaves isLoading and the message
\* list as they are.
C7_UploadValidation ==
    [][\A s \in Sessions : \A file \in Files :
          (/\ UploadImage(s, file)
           /\ \/ Len(file.type) < 6
              \/ SubSeq(file.type, 1, 6) # <<"i", "m", "a", "g", "e", "/">>
              \/ file.size > 10 * 1024 * 1024) =>
              /\ UNCHANGED <<dbVars, objects, uploadOp, sendOp, inflight>>
              /\ toasts'[s] \in {"Invalid file type", "File too large"}
              /\ UNCHANGED <<isLoading, messages>>]_vars

\* A file was rejected for its size on a page that has not uploaded anything.
C7_Witness ==
    \E s \in Sessions :
        /\ toasts[s] = "File too large"
        /\ ~isLoading[s] /\ uploadOp[s] = Idle
        /\ objects = {} /\ db_messages = {}

\* C8 (upload success): after an upload by a participant of the selected
\* conversation in which every backend call succeeded, exactly one message
\* of the conversation has type image, the uploader as sender and the
\* reference of the uploaded object, and every participant of the
\* conversation resolves that reference to the object.
C8_UploadSuccess ==
    \A s \in Sessions :
        uploadOp[s].stage = "sent" =>
            LET c == uploadOp[s].conv
                url == getPublicUrl("chat-images", uploadOp[s].name)
                sent == {m \in db_messages :
                            /\ m.conversation_id = c /\ m.message_type = "image"
                            /\ m.sender_id = s /\ m.image_url = Some(url)}
            IN  /\ Cardinality(sent) = 1
                /\ \E o \in objects : o.bucket_id = "chat-images" /\ o.name = uploadOp[s].name
                /\ \A m \in sent : \A u \in Users :
                      HasParticipantRow(u, c) => Resolves(m.image_url[1], u)

\* C12 (chat images are access-controlled): an object of the chat-images
\* bucket is shown only to an authenticated caller that participates in a
\* conversation holding a message whose image reference contains the
\* object's name.
C12_ChatImagesAccessControlled ==
    \A uid \in Callers : \A o \in SelectObjects(uid) :
        o.bucket_id = "chat-images" =>
            /\ uid # Null
            /\ \E m \in db_messages :
                  /\ HasParticipantRow(uid, m.conversation_id)
                  /\ ImageUrlLike(m.image_url, o.name)

\* C13 (one profile per identity): every account has exactly one profile,
\* whose username and display name are those of its signup metadata, and no
\* two profiles share a non-null username.
C13_OneProfilePerIdentity ==
    /\ \A u \in auth_users :
          /\ Cardinality({p \in profiles : p.user_id = u}) = 1
          /\ \A p \in profiles :
                p.user_id = u =>
                    /\ p.username = raw_user_meta_data[u].username
                    /\ p.display_name = raw_user_meta_data[u].display_name
    /\ \A p, q \in profiles : p # q => ~SqlEq(p.username, q.username)

C13_Witness ==
    /\ auth_users = Users
    /\ \E p, q \in profiles : p # q /\ p.username = Null /\ q.username = Null
    /\ \E p \in profiles : p.username # Null /\ p.display_name # Null

\* C14 (call-notice messages): the table accepts the three type tags text,
\* image and call-notice, and once startVideoCall has run in a conversation
\* with another participant, a message of type call-notice whose sender is
\* the caller is stored in that conversation.
C14_CallNotice ==
    \A s \in Sessions :
        callOp[s].stage = "done" =>
            /\ \A t \in MessageTypes : MessageTypeCheck(t)
            /\ \E m \in db_messages :
                  /\ m.message_type = "call_info"
                  /\ m.sender_id = s
                  /\ m.conversation_id = callOp[s].conv

\* The titles of the notifications the page shows for a failure.
FailureTitles ==
    {"Error loading conversations", "Error loading messages", "Failed to send message",
     "Failed to send image", "Failed to create chat"}

\* A step in which a backend call of sendMessage (its presence write or its
\* insert) is rejected.
SendRejected(s) ==
    /\ sendOp[s] # Idle /\ sendOp'[s] # sendOp[s]
    /\ faults' > faults \/ (sendOp[s].stage = "insert" /\ db_messages' = db_messages)

\* The same for uploadImage: its presence write, its upload or its insert.
UploadRejected(s) ==
    /\ uploadOp[s].stage \in {"presence", "upload", "insert"} /\ uploadOp'[s] # uploadOp[s]
    /\ \/ faults' > faults
       \/ uploadOp[s].stage = "upload" /\ objects' = objects
       \/ uploadOp[s].stage = "insert" /\ db_messages' = db_messages

\* The same for createConversationWithUser.
CreateRejected(s) ==
    /\ createOp[s] # Idle /\ createOp'[s] # createOp[s]
    /\ faults' > faults \/ (lastCreated'[s] # lastCreated[s] /\ lastCreated'[s].stage = "failed")

\* The same for startVideoCall: one of its broadcasts or its insert.
CallRejected(s) ==
    /\ callOp[s].stage \in {"broadcast", "insert"} /\ callOp'[s] # callOp[s]
    /\ faults' > faults \/ (callOp[s].stage = "insert" /\ db_messages' = db_messages)

\* The same for fetchOnlineUsers, the one request of a mounted page that
\* belongs to no operation in progress and to no fetch of messages.
OnlineFetchRejected(s) ==
    /\ mounted[s] /\ faults' > faults
    /\ UNCHANGED <<mounted, fetches, sendOp, uploadOp, createOp, callOp>>

\* C15 (failure handling): whenever a backend call of sendMessage,
\* uploadImage, createConversationWithUser, startVideoCall, the presence
\* write or the online-users fetch is rejected, the user is shown a failure
\* notification, the operation ends without issuing the call again, and
\* isLoading, the composer text, the selection and the call dialog are as
\* before the operation.
C15_FailureHandling ==
    [][\A s \in Sessions :
          /\ SendRejected(s) \/ UploadRejected(s) \/ CreateRejected(s) \/ CallRejected(s)
                \/ OnlineFetchRejected(s)
             => /\ toasts'[s] \in FailureTitles
                /\ newMessage'[s] = newMessage[s]
                /\ selectedConversation'[s] = selectedConversation[s]
          /\ SendRejected(s) => sendOp'[s] = Idle /\ ~isLoading'[s]
          /\ UploadRejected(s) => uploadOp'[s] = Idle /\ ~isLoading'[s]
          /\ CreateRejected(s) => createOp'[s] = Idle
          /\ CallRejected(s) => callOp'[s].stage = "done" /\ ~showVideoCall'[s]
          /\ OnlineFetchRejected(s) => onlineUsers'[s] = onlineUsers[s]]_vars

\* A step in which script.onerror runs: a pending script is settled and
\* window.JitsiMeetExternalAPI stays undefined.
ScriptFailed(s) ==
    /\ scripts'[s] # scripts[s] /\ scripts'[s] \subseteq scripts[s]
    /\ ~jitsiLoaded'[s]

\* C16 (widget script load failure): when the script of the video widget
\* fails to load, an error notification is shown, no widget is created, and
\* the call is aborted: the call dialog is not left open, connecting.
C16_ScriptLoadFailure ==
    [][\A s \in Sessions :
          ScriptFailed(s) =>
              /\ toasts'[s] = "Error"
              /\ live'[s] = live[s] /\ api'[s] = api[s]
              /\ ~(showVideoCall'[s] /\ ~isJoined'[s])]_vars

\* C19 (call widget disposal): a VideoCall component has at most one widget
\* that is created and not disposed, that widget is the one of the open
\* dialog and its current room, and none is left once the dialog is closed.
C19_WidgetDisposal ==
    \A s \in Sessions :
        /\ Cardinality(live[s]) <= 1
        /\ \A w \in live[s] : showVideoCall[s] /\ api[s] = Some(w)

C18_SessionChannelsClosed ==
    \A s \in Sessions :
        /\ CopiesIn("presence", channels[s]) <= 1
        /\ CopiesIn("calls", channels[s]) <= 1
        /\ ~mounted[s] => channels[s] = EmptyBag

\* The identity's profile was last written more than 5 minutes ago.
LastSeenExpired(u) == \E p \in profiles : p.user_id = u /\ now - p.last_seen > FiveMinutes

\* C20 (presence ages out): once an identity has made no last_seen write for
\* more than 5 minutes, every other open chat session eventually stops
\* reporting it as online (or the identity writes again, or the session is
\* closed).
C20_PresenceAgesOut ==
    \A u \in Users : \A s \in Sessions \ {u} :
        (mounted[s] /\ LastSeenExpired(u)) ~>
            (~mounted[s] \/ ~LastSeenExpired(u) \/ ~isUserOnline(s, u))


InSameCall(c, s) ==
    /\ showVideoCall[c] /\ showVideoCall[s]
    /\ videoCallUrl[s] = videoCallUrl[c]
    /\ \E i \in 1..Len(callLog[c]) : callLog[c][i].roomUrl = videoCallUrl[s]
    /\ api[c] # None /\ api[s] # None

\* C23 (accepting joins the caller's room): after acceptCall the callee's call
\* dialog is open with the room URL of the invitation, which is a URL the
\* caller generated, the prompt is cleared and the invitation's conversation
\* is selected; declineCall only clears the prompt; and while caller and
\* callee have the dialog open on that URL, the room the callee's widget
\* joined is the room the caller's widget joined.
C23_AcceptJoinsCallersRoom ==
    /\ [][\A s \in Sessions :
            /\ acceptCall(s) =>
                  LET inv == incomingCall[s][1]
                  IN  /\ showVideoCall'[s]
                      /\ videoCallUrl'[s] = inv.roomUrl
                      /\ \E i \in 1..Len(callLog[inv.caller]) :
                            callLog[inv.caller][i].roomUrl = inv.roomUrl
                      /\ incomingCall'[s] = None
                      /\ selectedConversation'[s] = inv.conversationId
            /\ declineCall(s) =>
                  /\ incomingCall'[s] = None
                  /\ UNCHANGED <<showVideoCall, videoCallUrl, selectedConversation, widgetVars>>]_vars
    /\ [](\A c \in Sessions : \A s \in Sessions \ {c} :
             InSameCall(c, s) => widgetRoom[s][api[s][1]] = widgetRoom[c][api[c][1]])

\* The other participants of a conversation, as stored.
StoredOthers(s, c) == {u \in Users \ {s} : HasParticipantRow(u, c)}

Arrivals(s, id) == {i \in 1..Len(received[s]) : received[s][i] = id}

\* The list is in ascending order of created_at.
AscendingByCreation(list) ==
    \A i, j \in 1..Len(list) : i < j => list[i].created_at <= list[j].created_at

\* C25 (arrival-order append): a handler of an insert event that appends its
\* message to the local list does so while no handler is pending for an event
\* of another message that arrived before every event of this message, so
\* that the appended entries follow the order of arrival; and the list that a
\* reload installs is in ascending order of creation timestamp.
C25_ArrivalOrderAppend ==
    /\ [][\A s \in Sessions : \A m \in BagToSet(handlers[s]) :
            (/\ handlers'[s] = handlers[s] (-) SetToBag({m})
             /\ messages'[s] = Append(messages[s], m)) =>
                \A m2 \in BagToSet(handlers'[s]) :
                    m2.id # m.id =>
                        \E i \in Arrivals(s, m2.id) : \E j \in Arrivals(s, m.id) : j < i]_vars
    /\ [][\A s \in Sessions : \A f \in fetches[s] :
            (/\ f.stage = "profiles"
             /\ fetches'[s] = fetches[s] \ {f}
             /\ messages'[s] = f.data) => AscendingByCreation(messages'[s])]_vars


(***************************************************************************)
(* The dependencies between the row policies.                              *)
(***************************************************************************)
\* Mutant: the two lookup functions as SECURITY INVOKER, their reads gated
\* by the caller's row policies.
GatedReads_Invoker(expr) ==
    CASE expr = "participant_subselect" -> {"conversation_participants"}
      [] expr = "sender_and_participant" -> {"conversation_participants"}
      [] expr = "participants_self_subselect" -> {"conversation_participants"}
      [] expr = "creator_subselect" -> {"conversations"}
      [] expr = "is_conversation_participant" -> {"conversation_participants"}
      [] expr = "is_conversation_creator" -> {"conversations"}
      [] expr = "chat_images_in_my_conversations" -> {"messages", "conversation_participants"}
      [] OTHER -> {}

\* The tables a policy expression reads as the caller, that is through their
\* SELECT policies.  A SECURITY DEFINER function reads as its owner, past
\* the row policies.
GatedReads(expr) ==
    CASE expr = "participant_subselect" -> {"conversation_participants"}
      [] expr = "sender_and_participant" -> {"conversation_participants"}
      [] expr = "participants_self_subselect" -> {"conversation_participants"}
      [] expr = "creator_subselect" -> {"conversations"}
      [] expr = "is_conversation_participant" -> {}
      [] expr = "is_conversation_creator" -> {}
      [] expr = "chat_images_in_my_conversations" -> {"messages", "conversation_participants"}
      [] OTHER -> {}

\* The policies that the evaluation of a policy evaluates in turn.
DependsOn(p) == {q \in policies : q.cmd = "SELECT" /\ q.tbl \in GatedReads(p.expr)}

\* The policies reached from a set of policies in at most n further steps.
RECURSIVE Reach(_, _)
Reach(S, n) ==
    IF n = 0 THEN S ELSE Reach(S \cup UNION {DependsOn(q) : q \in S}, n - 1)

\* The policies evaluated, directly or not, when a policy is evaluated.
PolicyDependencies(p) == Reach(DependsOn(p), Cardinality(policies))

ChatTables == {"conversations", "conversation_participants", "messages"}

\* C26 (non-recursive visibility): with all migrations applied, no policy on
\* conversation_participants reads conversation_participants through its row
\* policies, and no policy on conversations, conversation_participants or
\* messages is among the policies its own evaluation evaluates, so that the
\* evaluation of every such policy ends after the SELECT policy of
\* conversation_participants, which reads past the row policies: a caller
\* is shown the participant rows of the conversations it has a row in.
C26_NonRecursiveVisibility ==
    /\ \A p \in policies :
          p.tbl = "conversation_participants" =>
              "conversation_participants" \notin GatedReads(p.expr)
    /\ \A p \in policies : p.tbl \in ChatTables => p \notin PolicyDependencies(p)
    /\ \A p \in policies :
          p.tbl = "conversation_participants" /\ p.cmd = "SELECT" =>
              p.expr = "is_conversation_participant"
    /\ \A p \in policies :
          p.tbl \in ChatTables =>
              \A q \in PolicyDependencies(p) :
                  q.tbl = "conversation_participants" /\ DependsOn(q) = {}
    /\ \A uid \in Users \cup {Null} :
          SelectParticipants(uid) =
              {p \in BagToSet(conversation_participants) :
                  \E q \in BagToSet(conversation_participants) :
                      q.conversation_id = p.conversation_id /\ SqlEq(q.user_id, uid)}

\* A reader was shown rows of all three tables: each SELECT policy was
\* evaluated on stored rows, the policies of conversations and messages
\* through the one of conversation_participants.
C26_Witness ==
    \E uid \in auth_users :
        /\ SelectParticipants(uid) # {}
        /\ SelectConversations(uid) # {}
        /\ SelectMessages(uid) # {}
        /\ \E p \in PoliciesFor("messages", "SELECT", uid) : DependsOn(p) # {}


\* What the widget that the component holds has reported, or nothing when it
\* holds none.
CurrentWidget(s) == IF api[s] = None THEN NothingReported ELSE reported[s][api[s][1]]

\* The flag a mute status stands for: on while no mute event was reported
\* (startWithAudioMuted and startWithVideoMuted are false).
FlagOf(status) == IF status = None THEN TRUE ELSE ~status[1]

\* C27 (the call UI state mirrors the widget): while the call dialog of a
\* session is open the participant list holds, once each, the remote participants that the
\* current widget reported joined and not left; isJoined is true only while
\* the current widget has reported the conference joined and not left; and
\* the mic and camera flags are the negation of the muted flag of the current
\* widget's latest mute event.
C27_CallUiMirrorsWidget ==
    \A s \in Sessions :
        (mounted[s] /\ showVideoCall[s]) =>
            /\ {participants[s][i] : i \in 1..Len(participants[s])} = CurrentWidget(s).participants
            /\ \A i, j \in 1..Len(participants[s]) :
                  participants[s][i] = participants[s][j] => i = j
            /\ isJoined[s] => CurrentWidget(s).joined
            /\ isMicOn[s] = FlagOf(CurrentWidget(s).audioMuted)
            /\ isCameraOn[s] = FlagOf(CurrentWidget(s).videoMuted)


\* The message has an entry in the session's local list.
Listed(s, m) == \E i \in 1..Len(messages[s]) : messages[s][i].id = m.id

\* C28 (no message is lost to a reload race): while a conversation is
\* selected in a session and its feed subscription is open, and no reload
\* response and no feed-event handler is pending, the local list holds every
\* stored message of that conversation whose insert event the session has
\* received.
C28_NoReloadRaceLoss ==
    \A s \in Sessions :
        (/\ mounted[s]
         /\ selectedConversation[s] # NoConversation
         /\ subscription[s] = selectedConversation[s]
         /\ fetches[s] = {}
         /\ handlers[s] = EmptyBag) =>
            \A m \in db_messages :
                (m.conversation_id = selectedConversation[s] /\ TimesReceived(s, m.id) >= 1) =>
                    Listed(s, m)


\* C29 (the message list belongs to the selected conversation): in a session
\* with a conversation selected, once every reload response and every
\* feed-event handler that was started has completed, every entry of the
\* local message list has the identifier of the selected conversation.
C29_ListOfSelectedConversation ==
    \A s \in Sessions :
        (/\ mounted[s]
         /\ selectedConversation[s] # NoConversation
         /\ fetches[s] = {}
         /\ handlers[s] = EmptyBag) =>
            \A i \in 1..Len(messages[s]) :
                messages[s][i].conversation_id = selectedConversation[s]


(***************************************************************************)
(* An identity outside every conversation, acting through the API.         *)
(***************************************************************************)
\* The identity that created no conversation and that nobody added to one.
Outsider == "C"

\* The statements of the outsider, while the participants send messages; the
\* creator of the conversations adds nobody.
NextOutsider ==
    \/ \E rows \in ParticipantStatements(Outsider) : ApiInsertParticipants(Outsider, rows)
    \/ \E c \in ConvIds, s \in Users, t \in {"text", "call_info"} :
          ApiInsertMessage(Outsider, c, s, t)
    \/ \E tbl \in Tables : ApiUpdate(Outsider, tbl)
    \/ \E tbl \in Tables : ApiDelete(Outsider, tbl)
    \/ \E uid \in Users \ {Outsider}, c \in ConvIds : ClientSendsMessage(uid, c)

SpecOutsider == InitReliable /\ [][NextOutsider]_vars

\* C30 (membership is granted by the creator): an identity that did not
\* create a conversation and that its creator never added has, whatever
\* statements it issues, no participant row in the conversation, reads none
\* of its messages and has none of its own stored in it.
C30_MembershipGrantedByCreator ==
    \A conv \in conversations :
        conv.created_by # Outsider =>
            /\ ~HasParticipantRow(Outsider, conv.id)
            /\ \A m \in SelectMessages(Outsider) : m.conversation_id # conv.id
            /\ \A m \in db_messages : m.conversation_id = conv.id => m.sender_id # Outsider
====
